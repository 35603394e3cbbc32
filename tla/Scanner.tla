------------------------------- MODULE Scanner -------------------------------
(***************************************************************************)
(* The bounded scan of the library, `Scanner' of src/src/scan/mod.rs, with *)
(* the metadata cache it reads tags through.                               *)
(*                                                                         *)
(* A node is a path below `audio'.  What the scanner tells paths apart by  *)
(* is a record for each: the directory it is in, its kind and the kind of  *)
(* its target, whether it is classified as audio, hidden, or below         *)
(* `library' or `playlists', the playlist it belongs to, the file it leads *)
(* to, its name and the bytes that its path is charged.                    *)
(***************************************************************************)
EXTENDS MetadataCache, NaturalOrder

CONSTANTS
  Nodes, Node,         \* the tree
  Root,                \* the directory `audio'
  NoPlaylist,
  Limits,              \* pairs of a ScanConfig and of what may go wrong under it
  LongTags,            \* inodes with a tag longer than max_metadata_field_bytes
  Charge               \* what an asset, an entry, a playlist and a warning cost

(* A path of two components; `playlist_path' is the one that a playlist is named by. *)
SecondLevel(n) == Node[n].parent # Root /\ Node[Node[n].parent].parent = Root
PlaylistPath(l) == CHOOSE n \in Nodes : Node[n].list = l /\ SecondLevel(n)

ASSUME ScanAssumption ==
  /\ Root \notin Nodes
  /\ \A n \in Nodes : Node[n].parent \in Nodes \cup {Root}
  /\ \A n \in Nodes : Node[n].parent = Root \/ Node[Node[n].parent].kind = "directory"
  /\ \A S \in SUBSET Nodes : S # {} => \E n \in S : Node[n].parent \notin S     \* a tree
  /\ \A m, n \in Nodes :
       Node[m].parent = Node[n].parent /\ Node[m].name = Node[n].name => m = n
  /\ \A l \in Limits : l[1].openFiles >= 2      \* `audio' itself can be walked
  /\ \A l \in Limits : l[1].indexBytes \in Nat /\ l[1].warningBytes \in Nat
  /\ Charge \in [{"asset", "entry", "playlist", "warning"} -> Nat]
  /\ LongFields \subseteq LongTags              \* max_metadata_field_bytes is at most that
  /\ \A n \in Nodes : Node[n].list # NoPlaylist =>
       \E m \in Nodes : Node[m].list = Node[n].list /\ SecondLevel(m)
  /\ \A n \in Nodes : Node[n].bytes \in Nat /\ (Node[n].audio => Node[n].inode \in Inodes)

VARIABLES
  limits,          \* ScanConfig
  progress,        \* ScanProgress
  stack,           \* the directories being walked, the innermost last
  openFiles,       \* open_files
  assets,          \* [inode, tags], in the order of admission
  entries,         \* [node, asset], likewise
  playlists,       \* the playlists, each with its entry_count
  warnings,        \* the nodes warned about, as often as they were
  counters,        \* ScanCounters
  budget,          \* of the metadata helpers: "left", "spent" or "reported"
  admitting,       \* the node whose tags are being read, Root when none is
  failed           \* the scan ended with an error

PathTo[n \in Nodes] ==
  (IF Node[n].parent = Root THEN <<>> ELSE PathTo[Node[n].parent]) \o <<Node[n].name>>

Path == [n \in Nodes |-> PathTo[n]]

PathBefore == [m, n \in Nodes |-> ComparePaths(Path[m], Path[n]) < 0]

indexVars == <<assets, entries, playlists, warnings, counters>>
scanVars == <<scenario, limits, progress, stack, openFiles, indexVars, budget, admitting, failed>>

-----------------------------------------------------------------------------
(* Progress, warnings and limits.  These take the state of the scan as a
   record, so that a handler can chain them as the code does. *)

Scan == [progress |-> progress, openFiles |-> openFiles, assets |-> assets,
         entries |-> entries, playlists |-> playlists, warnings |-> warnings,
         counters |-> counters, budget |-> budget]

Commit(s) ==
  /\ progress' = s.progress /\ openFiles' = s.openFiles
  /\ assets' = s.assets /\ entries' = s.entries /\ playlists' = s.playlists
  /\ warnings' = s.warnings /\ counters' = s.counters /\ budget' = s.budget

CanEnumerate(s) == s.progress \in {"clean", "degraded"}
Stopped(s) == s.progress = "stopped"

Degraded(s) == IF s.progress = "clean" THEN [s EXCEPT !.progress = "degraded"] ELSE s

(* Mutant: a warning that cannot be kept leaves the scan complete. *)
DroppedSilently(s) == s

WarningDropped(s) == Degraded(s)

(* `warn': a warning is charged to its own budget and to the index. *)
Warn(s, node) ==
  IF s.counters.warningBytes + Charge.warning > limits.warningBytes THEN WarningDropped(s)
  ELSE IF s.counters.indexBytes + Charge.warning > limits.indexBytes
  THEN [s EXCEPT !.progress = "stopped"]
  ELSE [s EXCEPT !.counters.warningBytes = @ + Charge.warning,
                 !.counters.indexBytes = @ + Charge.warning,
                 !.warnings = Append(@, node)]

Limit(s, node) == Warn([s EXCEPT !.progress = "stopped"], node)

EnumerationLimit(s, node) ==
  Warn([s EXCEPT !.progress = IF @ = "stopped" THEN @ ELSE "exhausted"], node)

(* `account_index' *)
Account(s, bytes, node) ==
  IF s.counters.indexBytes + bytes > limits.indexBytes THEN Limit(s, node)
  ELSE [s EXCEPT !.counters.indexBytes = @ + bytes]

(* `acquire_open_slots' stops the scan when there are too few left. *)
Acquired(s, count) == s.openFiles + count <= limits.openFiles
Acquire(s, count, node) ==
  IF Acquired(s, count) THEN [s EXCEPT !.openFiles = @ + count] ELSE Limit(s, node)
Release(s, count) == [s EXCEPT !.openFiles = @ - count]

-----------------------------------------------------------------------------
(* `ensure_playlist' *)
EnsurePlaylist(s, list, node) ==
  IF list \in DOMAIN s.playlists THEN s
  ELSE IF Cardinality(DOMAIN s.playlists) >= limits.playlists THEN Limit(s, node)
  ELSE LET charged == Account(s, Charge.playlist, node) IN
       IF Stopped(charged) THEN charged
       ELSE [charged EXCEPT !.playlists =
               [l \in DOMAIN @ \cup {list} |-> IF l = list THEN 0 ELSE @[l]]]

Ensured(s, list) == list = NoPlaylist \/ list \in DOMAIN s.playlists

(* The second half of `accept_media': the entry itself. *)
AdmitEntry(s, node, asset) ==
  LET charged == Account(s, Charge.entry, node)
      list == Node[node].list
      added == [charged EXCEPT !.entries = Append(@, [node |-> node, asset |-> asset])]
  IN  IF Stopped(charged) THEN charged
      ELSE IF list = NoPlaylist THEN added
      ELSE [added EXCEPT !.playlists[list] = @ + 1]

(* ... and the asset before it, when the file was not known yet. *)
AdmitAsset(s, node, tags) ==
  LET charged == Account(s, Charge.asset, node) IN
  IF Stopped(charged) THEN charged
  ELSE AdmitEntry(
         [charged EXCEPT
            !.counters.metadataBytes = @ + (IF tags = NoTags THEN 0 ELSE TagBytes[Node[node].inode]),
            !.assets = Append(@, [inode |-> Node[node].inode, tags |-> tags])],
         node, Len(s.assets) + 1)

(* Mutant: every path is an asset of its own. *)
NeverKnown(s, inode) == 0

KnownAsset(s, inode) ==
  LET known == {k \in DOMAIN s.assets : s.assets[k].inode = inode} IN
  IF known = {} THEN 0 ELSE CHOOSE k \in known : TRUE

(* `validate_tags': tags that are refused leave the track with none. *)
Validated(s, node, tags) ==
  LET inode == Node[node].inode IN
  IF tags = NoTags \/ inode \in LongTags
  THEN [scan |-> Warn(s, node), tags |-> NoTags]
  ELSE IF s.counters.metadataBytes + TagBytes[inode] > limits.metadataBytes
  THEN [scan |-> Limit(s, node), tags |-> NoTags]
  ELSE [scan |-> s, tags |-> tags]

AdmitParsed(s, node, tags) ==
  LET valid == Validated(s, node, tags) IN AdmitAsset(valid.scan, node, valid.tags)

(* `accept_media' up to the tags: the file is counted, unless it is refused. *)
Counted(s, node) ==
  LET list == Node[node].list
      ensured == IF list = NoPlaylist THEN s ELSE EnsurePlaylist(s, list, PlaylistPath(list))
      refused(t) == [scan |-> t, accepted |-> FALSE]
  IN  IF s.counters.mediaFiles >= limits.files THEN refused(Limit(s, node))
      ELSE IF ~Ensured(ensured, list) THEN refused(ensured)
      ELSE IF list # NoPlaylist /\ ensured.playlists[list] >= limits.perPlaylist
      THEN refused(Limit(ensured, node))
      ELSE [scan |-> [ensured EXCEPT !.counters.mediaFiles = @ + 1], accepted |-> TRUE]

(* The scan goes on without tags when the helpers took too long already. *)
WithoutBudget(s, node) ==
  IF s.budget = "reported" THEN s
  ELSE Warn(Degraded([s EXCEPT !.budget = "reported"]), node)

-----------------------------------------------------------------------------
(* The handlers.  A frame is a directory that is being walked: what readdir has
   not returned yet, and the names that it has. *)

Children(dir) == {n \in Nodes : Node[n].parent = dir}
Frame(dir) == [dir |-> dir, stage |-> "read", unread |-> Children(dir), names |-> {}]
Top == Last(stack)
SetTop(frame) == stack' = Front(stack) \o <<frame>>

Idle == admitting = Root

KeepCache == UNCHANGED cacheVars
ScanKeeps == UNCHANGED <<scenario, limits, failed>>

NoCounters ==
  [encountered |-> 0, mediaFiles |-> 0, symlinks |-> 0, parses |-> 0,
   pathBytes |-> 0, metadataBytes |-> 0, warningBytes |-> 0, indexBytes |-> 0]

(* `scan_with_components_from' *)
BeginScan ==
  /\ \E l \in Limits : limits' = l[1] /\ scenario' = l[2]
  /\ progress' = "clean"
  /\ stack' = <<Frame(Root)>> /\ openFiles' = 2
  /\ assets' = <<>> /\ entries' = <<>> /\ warnings' = <<>>
  /\ playlists' = [l \in {} |-> 0]
  /\ counters' = NoCounters
  /\ budget' = "left" /\ admitting' = Root /\ failed' = FALSE

(* `encounter': also an entry that is refused has cost its enumeration. *)
Encounter(s, node) ==
  LET counted == [s EXCEPT !.counters.encountered = @ + 1]
      bytes == Node[node].bytes
      refused(t) == [scan |-> t, admitted |-> FALSE]
  IN  IF s.counters.encountered >= limits.entries THEN refused(EnumerationLimit(s, node))
      ELSE IF bytes > limits.path THEN refused(Warn(Degraded(counted), node))
      ELSE IF s.counters.pathBytes + bytes > limits.paths
      THEN refused(EnumerationLimit(counted, node))
      ELSE [scan |-> [counted EXCEPT !.counters.pathBytes = @ + bytes], admitted |-> TRUE]

(* readdir returns the entries in any order, and may fail to return one. *)
ReadName ==
  /\ stack # <<>> /\ Idle
  /\ Top.stage = "read" /\ CanEnumerate(Scan)
  /\ \E n \in Top.unread :
       \/ LET met == Encounter(Scan, n) IN
          /\ Commit(met.scan)
          /\ SetTop([Top EXCEPT !.unread = @ \ {n},
                                !.names = IF met.admitted THEN @ \cup {n} ELSE @])
       \/ /\ n \in scenario
          /\ Commit(Warn(Scan, Top.dir))
          /\ SetTop([Top EXCEPT !.unread = @ \ {n}])
  /\ UNCHANGED admitting
  /\ ScanKeeps /\ KeepCache

EndOfNames ==
  /\ stack # <<>> /\ Idle
  /\ Top.stage = "read"
  /\ Top.unread = {} \/ ~CanEnumerate(Scan)
  /\ SetTop([Top EXCEPT !.stage = "inspect"])
  /\ Commit(Scan)
  /\ UNCHANGED admitting
  /\ ScanKeeps /\ KeepCache

(* The names are inspected in their natural order. *)
ComesFirst(n) == \A m \in Top.names \ {n} : PathBefore[n, m]

Inspects(n) ==
  /\ stack # <<>> /\ Idle
  /\ Top.stage = "inspect" /\ ~Stopped(Scan)
  /\ n \in Top.names /\ ComesFirst(n)

Inspected(n) == SetTop([Top EXCEPT !.names = @ \ {n}])

(* The entry is gone before its kind is known; special files are not media. *)
EntryFails(n) ==
  /\ Inspects(n)
  /\ n \in scenario \/ Node[n].kind = "special"
  /\ Commit(Warn(Scan, n))
  /\ Inspected(n)
  /\ UNCHANGED admitting
  /\ ScanKeeps /\ KeepCache

Hidden(n) == limits.ignoreHidden /\ Node[n].hidden

(* `directory_entry' and the entry to `walk_directory': two descriptors, the
   directory's and that of its enumeration. *)
Entered(s, n, opens) ==
  LET list == Node[n].list
      ensured == IF list # NoPlaylist /\ Len(stack) = 2 THEN EnsurePlaylist(s, list, n) ELSE s
      pinned == Acquire(ensured, 1, n)
      walked == Acquire(pinned, 1, n)
      skipped(t) == [scan |-> t, walk |-> FALSE]
  IN  IF Hidden(n) \/ ~Node[n].media THEN skipped(s)
      ELSE IF Len(stack) > limits.depth THEN skipped(Limit(s, n))
      ELSE IF Len(stack) = 2 /\ ~Ensured(ensured, list) THEN skipped(ensured)
      ELSE IF ~Acquired(ensured, 1) THEN skipped(pinned)
      ELSE IF ~opens \/ (Node[n].mounted /\ ~limits.crossMounts) THEN skipped(Warn(ensured, n))
      ELSE IF ~CanEnumerate(ensured) THEN skipped(ensured)
      ELSE IF ~Acquired(pinned, 1) THEN skipped(Release(walked, 1))
      ELSE [scan |-> walked, walk |-> TRUE]

EnterDirectory(n) ==
  /\ Inspects(n)
  /\ Node[n].kind = "directory"
  /\ \E opens \in (IF n \in scenario THEN BOOLEAN ELSE {TRUE}) :
       LET entered == Entered(Scan, n, opens)
           rest == [Top EXCEPT !.names = @ \ {n}]
       IN  /\ Commit(entered.scan)
           /\ stack' = Front(stack) \o <<rest>> \o (IF entered.walk THEN <<Frame(n)>> ELSE <<>>)
  /\ UNCHANGED admitting
  /\ ScanKeeps /\ KeepCache

(* The innermost directory gives up both, `audio' only the second. *)
ReleaseFrame(s) == Release(s, IF Len(stack) = 1 THEN 1 ELSE 2)

LeaveDirectory ==
  /\ stack # <<>> /\ Idle
  /\ Top.stage = "inspect"
  /\ Top.names = {} \/ Stopped(Scan)
  /\ Commit(ReleaseFrame(Scan))
  /\ stack' = Front(stack)
  /\ UNCHANGED admitting
  /\ ScanKeeps /\ KeepCache

(* The file is closed again. *)
Closes(s) == Commit(Release(s, 1)) /\ UNCHANGED <<admitting, cached, parse>>

(* A counted file is admitted, or its tags have to be read first. *)
AcceptCounted(s, n) ==
  LET inode == Node[n].inode
      known == KnownAsset(s, inode)
      attempted == [s EXCEPT !.counters.parses = @ + 1]
  IN  IF known # 0 THEN Closes(AdmitEntry(s, n, known))
      ELSE IF Hit(inode)
      THEN /\ UseHit(inode)
           /\ Commit(Release(AdmitParsed(s, n, cached[Identity(inode)].tags), 1))
           /\ UNCHANGED <<admitting, parse>>
      ELSE IF s.budget # "left" THEN Closes(AdmitAsset(WithoutBudget(s, n), n, NoTags))
      ELSE IF s.counters.parses >= limits.parses THEN Closes(AdmitAsset(Limit(s, n), n, NoTags))
      ELSE IF ~Acquired(attempted, 2) THEN Closes(AdmitAsset(Limit(attempted, n), n, NoTags))
      ELSE /\ Commit(Acquire(attempted, 2, n))
           /\ BeginParse(inode)
           /\ admitting' = n
           /\ UNCHANGED cached

(* `accept_media' of an opened file, which is counted also when it turns out not to
   be a regular one. *)
AcceptMedia(s, n, regular) ==
  LET counted == Counted(s, n) IN
  IF ~counted.accepted THEN Closes(counted.scan)
  ELSE IF ~regular THEN Closes(Warn(counted.scan, n))
  ELSE AcceptCounted(counted.scan, n)

Skips(s) == Commit(s) /\ UNCHANGED <<admitting, cached, parse>>

(* By the time it is opened the file may be gone, or another one. *)
OpenMedia(s, n) ==
  IF ~Acquired(s, 1) THEN Skips(Limit(s, n))
  ELSE \/ n \in scenario /\ Skips(Warn(s, n))
       \/ \E regular \in {TRUE, n \notin scenario} : AcceptMedia(Acquire(s, 1, n), n, regular)

(* `regular_entry' *)
RegularEntry(n) ==
  /\ Inspects(n)
  /\ Node[n].kind = "file"
  /\ IF Node[n].audio
     THEN IF Hidden(n) THEN Skips(Scan) ELSE OpenMedia(Scan, n)
     ELSE Skips(IF Node[n].media /\ ~Node[n].readme THEN Warn(Scan, n) ELSE Scan)
  /\ Inspected(n)
  /\ UNCHANGED <<version, cacheFile, writable, saving>>
  /\ ScanKeeps

(* `symlink_entry': only to a regular file, and only for audio.  What it leads to
   may be gone, or out of reach. *)
SymlinkEntry(n) ==
  /\ Inspects(n)
  /\ Node[n].kind = "symlink"
  /\ LET resolved == [Scan EXCEPT !.counters.symlinks = @ + 1] IN
     IF Hidden(n) /\ Node[n].audio THEN Skips(Scan)
     ELSE IF counters.symlinks >= limits.symlinks THEN Skips(Limit(Scan, n))
     ELSE IF ~limits.followFiles THEN Skips(Warn(resolved, n))
     ELSE IF ~Acquired(resolved, 1) THEN Skips(Limit(resolved, n))
     ELSE \/ n \in scenario /\ Skips(Warn(resolved, n))
          \/ IF Node[n].target # "file" THEN Skips(Warn(resolved, n))
             ELSE IF ~Node[n].audio
             THEN Skips(IF Node[n].media THEN Warn(resolved, n) ELSE resolved)
             ELSE AcceptMedia(Acquire(resolved, 1, n), n, TRUE)
  /\ Inspected(n)
  /\ UNCHANGED <<version, cacheFile, writable, saving>>
  /\ ScanKeeps

(* `read_tags' returns, and the rest of `accept_media' runs.  The helpers may
   have taken all the time that they have together. *)
FinishParse ==
  /\ parse.step = "answered"
  /\ \E spent \in (IF "slow" \in scenario THEN {budget, "spent"} ELSE {budget}) :
       LET read == [Release(Scan, 2) EXCEPT !.budget = spent] IN
       Commit(Release(AdmitParsed(read, admitting, parse.tags), 1))
  /\ KeepParsed
  /\ admitting' = Root
  /\ UNCHANGED <<stack, version, cacheFile, writable, saving>>
  /\ ScanKeeps

(* A call fails for which the scanner has no warning: the scan is given up. *)
ScanFails ==
  /\ "scan" \in scenario
  /\ stack # <<>> /\ Idle
  /\ stack' = <<>>
  /\ failed' = TRUE
  /\ UNCHANGED <<scenario, limits, progress, openFiles, indexVars, budget, admitting>>
  /\ KeepCache

ScanStep ==
  \/ ReadName \/ EndOfNames \/ LeaveDirectory \/ FinishParse \/ ScanFails
  \/ \E n \in Nodes : EntryFails(n) \/ EnterDirectory(n) \/ RegularEntry(n) \/ SymlinkEntry(n)

ScanDone == stack = <<>>

ScanInit ==
  /\ \E l \in Limits : limits = l[1]
  /\ scenario = {}
  /\ progress = "clean" /\ stack = <<>> /\ openFiles = 1
  /\ assets = <<>> /\ entries = <<>> /\ warnings = <<>>
  /\ playlists = [l \in {} |-> 0]
  /\ counters = NoCounters
  /\ budget = "left" /\ admitting = Root /\ failed = FALSE

-----------------------------------------------------------------------------
(* What the index should hold, and what it does not hold although no warning,
   about the path or about a directory above it, says so. *)
Above[n \in Nodes] ==
  IF Node[n].parent = Root THEN {} ELSE {Node[n].parent} \cup Above[Node[n].parent]

Wanted(n) ==
  /\ Node[n].audio
  /\ Node[n].kind = "file" \/ (Node[n].kind = "symlink" /\ Node[n].target = "file")
  /\ ~\E m \in Above[n] \cup {n} : Hidden(m) \/ ~Node[m].media

Admitted(n) == \E k \in DOMAIN entries : entries[k].node = n

WarnedAbout(n) == \E k \in DOMAIN warnings : warnings[k] = n

LostSilently(n) == ~Admitted(n) /\ Wanted(n) /\ ~\E m \in Above[n] \cup {n, Root} : WarnedAbout(m)

(* What is charged is what is retained: the index and the warnings stay within
   their bytes, and are charged exactly until a limit stops the scan half way
   through an admission; every playlist counts its entries, aliases of one file
   share its asset, and the open files are those of the directories being walked
   and the file being read. *)
Retained ==
  Charge.asset * Len(assets) + Charge.entry * Len(entries)
    + Charge.playlist * Cardinality(DOMAIN playlists) + Charge.warning * Len(warnings)

IndexExact ==
  /\ Retained <= counters.indexBytes /\ counters.indexBytes <= limits.indexBytes
  /\ progress # "stopped" => Retained = counters.indexBytes
  /\ \A l \in DOMAIN playlists :
       playlists[l] = Cardinality({k \in DOMAIN entries : Node[entries[k].node].list = l})
  /\ \A k \in DOMAIN entries :
       assets[entries[k].asset].inode = Node[entries[k].node].inode
  /\ \A j, k \in DOMAIN assets : assets[j].inode = assets[k].inode => j = k
  /\ \A j, k \in DOMAIN entries : entries[j].node = entries[k].node => j = k
  /\ ~failed => openFiles = 1 + (IF stack = <<>> THEN 0 ELSE 2 * Len(stack) - 1)
                              + (IF admitting = Root THEN 0 ELSE 3)

=============================================================================
