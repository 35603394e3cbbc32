----------------------------- MODULE StartupProofs -----------------------------
(***************************************************************************)
(* Theorems about what a process does around its player: Launch (the two   *)
(* leases and the terminal) and Library (the metadata cache, the scan).    *)
(*                                                                         *)
(* For any processes, runtime directories and failures, one process at a   *)
(* time has a session on the root, a refusal names the holder, and the     *)
(* terminal is left as it was entered.  For any tree of files, limits,     *)
(* charges and failures, the cache only ever holds the tags of the         *)
(* versions it names and is replaced whole, the index is exact and within  *)
(* its limits, and a scan that ends complete has lost nothing silently.    *)
(*                                                                         *)
(* The leases rest on LeaseInv: what a process holds is the file that its  *)
(* path leads to, and it owns it; no two paths lead to one file, so that a *)
(* release never frees another lease.  The terminal rests on TerminalInv:  *)
(* the guard covers every mode that was entered.                           *)
(*                                                                         *)
(* The cache rests on CacheInv, which adds to CacheTruthful what a helper  *)
(* may have read so far.  The scan rests on ScanInv: the index is charged  *)
(* for what it holds, the stack of directories is a path of the tree, no   *)
(* name waits twice or is in the index already, and every wanted file that *)
(* is neither admitted nor warned about is below a name that still waits.  *)
(***************************************************************************)
EXTENDS Launch, Library, FiniteSetTheorems, SequenceTheorems, TLAPS

-----------------------------------------------------------------------------
(* The metadata cache. *)

Versions == Inodes \X Nat

(* The records of a cache file, all of them true. *)
Truthful(records) ==
  /\ DOMAIN records \subseteq Versions
  /\ \A i \in DOMAIN records : records[i] = i[2]

CacheRecords == [tags : Nat, used : BOOLEAN]

(* What is in memory, all of it true. *)
CachedOK ==
  /\ DOMAIN cached \subseteq Versions
  /\ cached \in [DOMAIN cached -> CacheRecords]
  /\ \A i \in DOMAIN cached : cached[i].tags = i[2]

(* What the helper has read is no older than the identity taken before, and no newer
   than what is in the file now. *)
ParseOK ==
  parse # NoParse =>
    /\ parse = [step |-> parse.step, identity |-> parse.identity, tags |-> parse.tags]
    /\ parse.identity \in Versions
    /\ parse.identity[2] <= version[parse.identity[1]]
    /\ parse.tags # NoTags =>
         /\ parse.tags \in Nat
         /\ parse.identity[2] <= parse.tags /\ parse.tags <= version[parse.identity[1]]

CacheInv ==
  /\ version \in [Inodes -> Nat]
  /\ CachedOK
  /\ ParseOK
  /\ Readable => Truthful(cacheFile)
  /\ saving # Absent => Truthful(saving) /\ phase = "save" /\ saving = Saved

LEMMA CacheInvStart == LibraryInit => CacheInv
<1> SUFFICES ASSUME LibraryInit PROVE CacheInv
  OBVIOUS
<1>1. version \in [Inodes -> Nat]
  BY DEF LibraryInit, CacheInit
<1>2. CachedOK
  BY DEF LibraryInit, CacheInit, NoEntries, CachedOK
<1>3. ParseOK
  BY DEF LibraryInit, CacheInit, ParseOK
<1>4. ~Readable /\ saving = Absent
  BY DEF LibraryInit, CacheInit, Readable
<1> QED
  BY <1>1, <1>2, <1>3, <1>4 DEF CacheInv

(* Nothing of the cache changes, or only what the loop remembers of the helper. *)
CacheKept == UNCHANGED <<version, cacheFile, writable, cached, saving>>

LEMMA SavedKept == cached' = cached => Saved' = Saved
BY DEF Saved, ToBeSaved

(* Whoever leaves the caches alone and is not saving keeps what they hold. *)
LEMMA CacheKeeps ==
  ASSUME CacheInv, version' = version, cacheFile' = cacheFile, saving' = saving,
         CachedOK', ParseOK', phase # "save" \/ (phase' = phase /\ cached' = cached)
  PROVE  CacheInv'
<1>1. saving' # Absent => Truthful(saving') /\ phase' = "save" /\ saving' = Saved'
  BY SavedKept DEF CacheInv
<1>2. Readable' => Truthful(cacheFile')
  BY DEF CacheInv, Readable
<1> QED
  BY <1>1, <1>2 DEF CacheInv

(* `load'. *)
LEMMA LoadTruthful ==
  ASSUME CacheInv, Load PROVE CachedOK'
<1>1. CASE Readable
  <2>1. Truthful(cacheFile)
    BY <1>1 DEF CacheInv
  <2>2. cached' = [i \in DOMAIN cacheFile |-> [tags |-> cacheFile[i], used |-> FALSE]]
    BY <1>1 DEF Load
  <2>3. \A i \in DOMAIN cacheFile : cacheFile[i] = i[2] /\ cacheFile[i] \in Nat
    BY <2>1 DEF Truthful, Versions
  <2> QED
    BY <2>1, <2>2, <2>3 DEF CachedOK, CacheRecords, Truthful
<1>2. CASE ~Readable
  BY <1>2 DEF Load, NoEntries, CachedOK
<1> QED
  BY <1>1, <1>2

LEMMA UsedRecord ==
  ASSUME NEW r \in CacheRecords
  PROVE  [r EXCEPT !.used = TRUE] \in CacheRecords /\ [r EXCEPT !.used = TRUE].tags = r.tags
BY DEF CacheRecords

LEMMA HitTruthful ==
  ASSUME CachedOK, NEW inode, Hit(inode), UseHit(inode) PROVE CachedOK'
<1> DEFINE i == Identity(inode)
           used == [cached[i] EXCEPT !.used = TRUE]
<1>1. i \in DOMAIN cached /\ cached[i] \in CacheRecords /\ cached[i].tags = i[2]
  BY DEF CachedOK, Hit
<1>2. used \in CacheRecords /\ used.tags = i[2]
  BY <1>1, UsedRecord
<1>3. cached' = [cached EXCEPT ![i] = used]
  BY DEF UseHit
<1> HIDE DEF i, used
<1> QED
  BY <1>1, <1>2, <1>3 DEF CachedOK

(* The tags of the version that the file still is at. *)
LEMMA InsertTruthful ==
  ASSUME CachedOK, NEW i \in Versions, Insert(i, i[2]) PROVE CachedOK'
<1>1. i[2] \in Nat
  BY DEF Versions
<1> QED
  BY <1>1 DEF CachedOK, CacheRecords, Insert

LEMMA KeepParsedTruthful ==
  ASSUME CacheInv, KeepParsed, parse # NoParse PROVE CachedOK' /\ ParseOK'
<1>1. ParseOK'
  BY DEF KeepParsed, ParseOK
<1>2. CASE parse.tags # NoTags /\ SameIdentity(parse.identity)
  <2> DEFINE i == parse.identity
  <2>1. i \in Versions /\ i[2] <= parse.tags /\ parse.tags <= version[i[1]] /\ parse.tags \in Nat
    BY <1>2 DEF CacheInv, ParseOK
  <2>2. version[i[1]] = i[2]
    BY <1>2, <2>1 DEF SameIdentity, Identity, Versions
  <2>3. parse.tags = i[2]
    BY <2>1, <2>2 DEF Versions
  <2>4. Insert(i, i[2])
    BY <1>2, <2>3 DEF KeepParsed
  <2> HIDE DEF i
  <2>5. CachedOK'
    BY <2>1, <2>4, InsertTruthful DEF CacheInv
  <2> QED
    BY <1>1, <2>5
<1>3. CASE ~(parse.tags # NoTags /\ SameIdentity(parse.identity))
  BY <1>1, <1>3 DEF KeepParsed, CacheInv, CachedOK
<1> QED
  BY <1>2, <1>3

LEMMA BeginParseOK ==
  ASSUME CacheInv, NEW inode \in Inodes, BeginParse(inode), version' = version PROVE ParseOK'
BY DEF CacheInv, BeginParse, ParseOK, Identity, Versions, NoTags

LEMMA HelperStepOK ==
  ASSUME CacheInv, HelperStep PROVE CacheKept /\ ParseOK'
<1>1. CacheKept
  BY DEF HelperStep, HelperReads, HelperExits, HelperFails, HelperReaped, CacheKept
<1>2. parse # NoParse
  BY DEF HelperStep, HelperReads, HelperExits, HelperFails, HelperReaped, NoParse
<1>3. /\ parse = [step |-> parse.step, identity |-> parse.identity, tags |-> parse.tags]
      /\ parse.identity \in Versions /\ version \in [Inodes -> Nat]
      /\ parse.identity[2] <= version[parse.identity[1]]
      /\ parse.tags # NoTags =>
         /\ parse.tags \in Nat
         /\ parse.identity[2] <= parse.tags /\ parse.tags <= version[parse.identity[1]]
  BY <1>2 DEF CacheInv, ParseOK
<1>4. version[parse.identity[1]] \in Nat
  BY <1>3 DEF Versions
<1>5. CASE HelperReads
  <2>1. parse' = [parse EXCEPT !.tags = version[parse.identity[1]]] /\ version' = version
    BY <1>5 DEF HelperReads
  <2>2. /\ parse' = [step |-> parse'.step, identity |-> parse'.identity, tags |-> parse'.tags]
        /\ parse'.identity = parse.identity /\ parse'.tags = version[parse.identity[1]]
    BY <1>3, <2>1
  <2> QED
    BY <1>1, <1>3, <1>4, <2>1, <2>2 DEF ParseOK, Versions
<1>6. ASSUME HelperExits \/ HelperFails \/ HelperReaped PROVE ParseOK'
  <2>1. version' = version
    BY <1>6 DEF HelperExits, HelperFails, HelperReaped
  <2>2. /\ parse' = [step |-> parse'.step, identity |-> parse'.identity, tags |-> parse'.tags]
        /\ parse'.identity = parse.identity /\ parse'.tags \in {parse.tags, NoTags}
    BY <1>3, <1>6 DEF HelperExits, HelperFails, HelperReaped
  <2> QED
    BY <1>3, <2>1, <2>2 DEF ParseOK
<1> QED
  BY <1>1, <1>5, <1>6 DEF HelperStep

(* What the handlers of the scanner do to the cache. *)
CacheUsed ==
  \/ UNCHANGED <<cached, parse>>
  \/ parse' = parse /\ \E inode : Hit(inode) /\ UseHit(inode)
  \/ cached' = cached /\ \E inode \in Inodes : BeginParse(inode)
  \/ parse # NoParse /\ KeepParsed

LEMMA AcceptUses ==
  ASSUME NEW s, NEW n \in Nodes, NEW regular, Node[n].audio, AcceptMedia(s, n, regular)
  PROVE  CacheUsed
<1>1. Node[n].inode \in Inodes
  BY ScanAssumption
<1> QED
  BY <1>1 DEF AcceptMedia, AcceptCounted, Closes, CacheUsed

LEMMA ScanUses ==
  ASSUME ScanStep
  PROVE  CacheUsed /\ UNCHANGED <<version, cacheFile, saving>>
<1>1. CASE ReadName \/ EndOfNames \/ LeaveDirectory \/ ScanFails
  BY <1>1 DEF ReadName, EndOfNames, LeaveDirectory, ScanFails, KeepCache, cacheVars, CacheUsed
<1>2. CASE FinishParse
  <2>1. parse # NoParse
    BY <1>2 DEF FinishParse, NoParse
  <2> QED
    BY <1>2, <2>1 DEF FinishParse, CacheUsed
<1>3. ASSUME NEW n \in Nodes, EntryFails(n) \/ EnterDirectory(n)
      PROVE  CacheUsed /\ UNCHANGED <<version, cacheFile, saving>>
  BY <1>3 DEF EntryFails, EnterDirectory, KeepCache, cacheVars, CacheUsed
<1>4. ASSUME NEW n \in Nodes, RegularEntry(n)
      PROVE  CacheUsed /\ UNCHANGED <<version, cacheFile, saving>>
  <2>1. \/ UNCHANGED <<cached, parse>>
        \/ \E s, regular : Node[n].audio /\ AcceptMedia(s, n, regular)
    BY <1>4 DEF RegularEntry, OpenMedia, Skips
  <2>2. CacheUsed
    BY <2>1, AcceptUses DEF CacheUsed
  <2> QED
    BY <1>4, <2>2 DEF RegularEntry
<1>5. ASSUME NEW n \in Nodes, SymlinkEntry(n)
      PROVE  CacheUsed /\ UNCHANGED <<version, cacheFile, saving>>
  <2>1. \/ UNCHANGED <<cached, parse>>
        \/ \E s : Node[n].audio /\ AcceptMedia(s, n, TRUE)
    BY <1>5 DEF SymlinkEntry, Skips
  <2>2. CacheUsed
    BY <2>1, AcceptUses DEF CacheUsed
  <2> QED
    BY <1>5, <2>2 DEF SymlinkEntry
<1> QED
  BY <1>1, <1>2, <1>3, <1>4, <1>5 DEF ScanStep

LEMMA CacheInvStep == CacheInv /\ [LibraryNext]_libraryVars => CacheInv'
<1> SUFFICES ASSUME CacheInv, [LibraryNext]_libraryVars PROVE CacheInv'
  OBVIOUS
<1>0. CachedOK /\ ParseOK
  BY DEF CacheInv
<1>1. ASSUME Start PROVE CacheInv'
  <2>1. CachedOK'
    BY <1>1, LoadTruthful DEF Start
  <2>2. ParseOK'
    BY <1>1 DEF Start, ParseOK
  <2> QED
    BY <1>1, <2>1, <2>2, CacheKeeps DEF Start
<1>2. ASSUME Scanning PROVE CacheInv'
  <2>1. phase = "scan" /\ phase' = "scan"
    BY <1>2 DEF Scanning
  <2>2. CASE ScanStep
    <3>1. CacheUsed /\ UNCHANGED <<version, cacheFile, saving>>
      BY <2>2, ScanUses
    <3>2. CASE UNCHANGED <<cached, parse>>
      BY <1>0, <2>1, <3>1, <3>2, CacheKeeps DEF CachedOK, ParseOK
    <3>3. ASSUME parse' = parse, NEW inode, Hit(inode), UseHit(inode) PROVE CacheInv'
      <4>1. CachedOK'
        BY <1>0, <3>3, HitTruthful
      <4> QED
        BY <1>0, <2>1, <3>1, <3>3, <4>1, CacheKeeps DEF ParseOK
    <3>4. ASSUME cached' = cached, NEW inode \in Inodes, BeginParse(inode) PROVE CacheInv'
      <4>1. ParseOK'
        BY <3>1, <3>4, BeginParseOK
      <4> QED
        BY <1>0, <2>1, <3>1, <3>4, <4>1, CacheKeeps DEF CachedOK
    <3>5. CASE parse # NoParse /\ KeepParsed
      <4>1. CachedOK' /\ ParseOK'
        BY <3>5, KeepParsedTruthful
      <4> QED
        BY <2>1, <3>1, <4>1, CacheKeeps
    <3> QED
      BY <3>1, <3>2, <3>3, <3>4, <3>5 DEF CacheUsed
  <2>3. CASE HelperStep
    <3>1. CacheKept /\ ParseOK'
      BY <2>3, HelperStepOK
    <3> QED
      BY <1>0, <2>1, <3>1, CacheKeeps DEF CacheKept, CachedOK
  <2> QED
    BY <1>2, <2>2, <2>3 DEF Scanning
<1>3. ASSUME UNCHANGED cacheVars, phase = phase' \/ phase # "save" PROVE CacheInv'
  BY <1>0, <1>3, CacheKeeps DEF cacheVars, CachedOK, ParseOK
<1>4. ASSUME ProcessEnds PROVE CacheInv'
  <2>1. CachedOK' /\ ParseOK' /\ saving' = Absent
    BY <1>4 DEF ProcessEnds, CachedOK, ParseOK, NoEntries
  <2>2. version' = version /\ (Readable' => Truthful(cacheFile'))
    BY <1>4 DEF ProcessEnds, CacheInv, Readable
  <2> QED
    BY <2>1, <2>2 DEF CacheInv
<1>5. ASSUME ScanEnds PROVE CacheInv'
  BY <1>3, <1>4, <1>5 DEF ScanEnds
<1>6. ASSUME Save PROVE CacheInv'
  <2>1. CASE WriteTemporary /\ phase' = phase
    <3>1. DOMAIN Saved \subseteq DOMAIN cached /\ \A i \in DOMAIN Saved : Saved[i] = cached[i].tags
      BY DEF Saved, ToBeSaved
    <3>2. Truthful(Saved)
      BY <1>0, <3>1 DEF CachedOK, Truthful
    <3>3. saving' = Saved /\ Saved' = Saved /\ phase' = "save"
      BY <1>6, <2>1, SavedKept DEF WriteTemporary, Save
    <3>4. version' = version /\ CachedOK' /\ ParseOK' /\ (Readable' => Truthful(cacheFile'))
      BY <1>0, <2>1 DEF WriteTemporary, CacheInv, CachedOK, ParseOK, Readable
    <3> QED
      BY <3>2, <3>3, <3>4 DEF CacheInv
  <2>2. CASE ReplaceCache
    <3>1. saving' = Absent /\ Truthful(cacheFile')
      BY <2>2 DEF ReplaceCache, CacheInv
    <3>2. version' = version /\ CachedOK' /\ ParseOK'
      BY <1>0, <2>2 DEF ReplaceCache, CacheInv, CachedOK, ParseOK
    <3> QED
      BY <3>1, <3>2 DEF CacheInv
  <2> QED
    BY <1>6, <2>1, <2>2 DEF Save
<1>7. ASSUME SaveFails PROVE CacheInv'
  <2>1. version' = version /\ CachedOK' /\ ParseOK' /\ (Readable' => Truthful(cacheFile'))
    BY <1>0, <1>7 DEF SaveFails, CacheInv, CachedOK, ParseOK, Readable
  <2> QED
    BY <1>7, <2>1 DEF SaveFails, CacheInv
<1>8. ASSUME Others PROVE CacheInv'
  <2>1. CASE EditMedia
    <3>1. PICK n \in Inodes : version' = [version EXCEPT ![n] = @ + 1]
      BY <2>1 DEF EditMedia
    <3>2. version' \in [Inodes -> Nat] /\ \A m \in Inodes : version[m] <= version'[m]
      BY <3>1 DEF CacheInv
    <3>3. UNCHANGED <<cacheFile, writable, cached, parse, saving>> /\ phase' = phase
      BY <1>8, <2>1 DEF EditMedia, Others
    <3>4. ParseOK'
      <4> SUFFICES ASSUME parse # NoParse
                   PROVE  /\ parse.identity[2] <= version'[parse.identity[1]]
                          /\ parse.tags # NoTags => parse.tags <= version'[parse.identity[1]]
        BY <1>0, <3>3 DEF ParseOK
      <4>1. parse.identity \in Versions /\ (parse.tags # NoTags => parse.tags \in Nat)
            /\ parse.identity[2] <= version[parse.identity[1]]
            /\ (parse.tags # NoTags => parse.tags <= version[parse.identity[1]])
        BY <1>0 DEF ParseOK
      <4>2. /\ parse.identity[1] \in Inodes /\ parse.identity[2] \in Nat
            /\ version[parse.identity[1]] \in Nat /\ version'[parse.identity[1]] \in Nat
            /\ version[parse.identity[1]] <= version'[parse.identity[1]]
        BY <3>2, <4>1 DEF Versions, CacheInv
      <4> QED
        BY <4>1, <4>2
    <3>5. CachedOK'
      BY <1>0, <3>3 DEF CachedOK
    <3> QED
      BY <3>2, <3>3, <3>4, <3>5, SavedKept DEF CacheInv, Readable
  <2>2. CASE phase = "down" /\ SpoilCache
    <3>1. ~Readable' /\ UNCHANGED <<version, cached, parse, saving>> /\ phase' = phase
      BY <1>8, <2>2 DEF SpoilCache, Readable, Others
    <3>2. CachedOK' /\ ParseOK'
      BY <1>0, <3>1 DEF CachedOK, ParseOK
    <3> QED
      BY <3>1, <3>2, SavedKept DEF CacheInv
  <2> QED
    BY <1>8, <2>1, <2>2 DEF Others
<1> QED
  BY <1>1, <1>2, <1>3, <1>4, <1>5, <1>6, <1>7, <1>8
     DEF LibraryNext, libraryVars, SessionEnds, Browsed

(* What is in memory, in the file and on its way from a parsing helper is the tags of the
   version that it names, and what is being saved is what the session has used
   (src/src/metadata_cache.rs): the invariant behind the next two. *)
THEOREM CacheHolds == LibrarySpec => []CacheInv
BY CacheInvStart, CacheInvStep, PTL DEF LibrarySpec

(* Whatever is cached for a version of a file, in memory and on disk, are the tags of that
   very version, although files are edited while a helper parses them and the cache may be
   spoiled or lost (CachedMetadataReader in src/src/metadata_cache.rs). *)
THEOREM CacheStaysTruthful == LibrarySpec => []CacheTruthful
<1>1. CacheInv => CacheTruthful
  BY DEF CacheInv, CacheTruthful, CachedOK, Truthful
<1> QED
  BY <1>1, CacheHolds, PTL

(* While a session runs, the cache file changes only to the whole of what the session has
   used: no crash and no failed write leaves part of one (CachedMetadataReader::save). *)
THEOREM CacheAlwaysReplacedWhole == LibrarySpec => CacheReplacedWhole
<1>1. CacheInv /\ [LibraryNext]_libraryVars
        => [phase # "down" /\ cacheFile' # cacheFile => cacheFile' = Saved]_libraryVars
  <2> SUFFICES ASSUME CacheInv, LibraryNext, phase # "down", cacheFile' # cacheFile
               PROVE  cacheFile' = Saved
    BY DEF libraryVars, cacheVars
  <2>1. ~Start /\ ~Browsed /\ ~SaveFails /\ ~ProcessEnds
    BY DEF Start, Browsed, SaveFails, ProcessEnds, cacheVars
  <2>2. ~Scanning
    BY ScanUses, HelperStepOK DEF Scanning, CacheKept
  <2>3. ~ScanEnds /\ ~SessionEnds /\ ~Others
    BY <2>1 DEF ScanEnds, SessionEnds, Others, EditMedia, cacheVars
  <2>4. Save
    BY <2>1, <2>2, <2>3 DEF LibraryNext
  <2>5. ReplaceCache
    BY <2>4 DEF Save, WriteTemporary
  <2> QED
    BY <2>5 DEF ReplaceCache, CacheInv
<1> QED
  BY <1>1, CacheHolds, PTL DEF LibrarySpec, CacheReplacedWhole

-----------------------------------------------------------------------------
(* The scan as a record, and what its handlers do to single fields. *)

Places == Nodes \cup {Root}
Lists == {Node[n].list : n \in Nodes} \ {NoPlaylist}
PlaylistCounts == UNION {[some -> Nat] : some \in SUBSET Lists}
AssetRecords == [inode : Inodes, tags : Int]
EntryRecords == [node : Nodes, asset : Nat]

CounterRecords ==
  [encountered : Nat, mediaFiles : Nat, symlinks : Nat, parses : Nat,
   pathBytes : Nat, metadataBytes : Nat, warningBytes : Nat, indexBytes : Nat]

Scans ==
  [progress : {"clean", "degraded", "exhausted", "stopped"}, openFiles : Int,
   assets : Seq(AssetRecords), entries : Seq(EntryRecords), playlists : PlaylistCounts,
   warnings : Seq(Places), counters : CounterRecords, budget : {"left", "spent", "reported"}]

LEMMA CountsOfLists ==
  ASSUME NEW counts
  PROVE  counts \in PlaylistCounts
           <=> DOMAIN counts \subseteq Lists /\ counts \in [DOMAIN counts -> Nat]
BY DEF PlaylistCounts

LEMMA ScanFields ==
  ASSUME NEW s \in Scans
  PROVE  /\ s.progress \in {"clean", "degraded", "exhausted", "stopped"} /\ s.openFiles \in Int
         /\ s.assets \in Seq(AssetRecords) /\ s.entries \in Seq(EntryRecords)
         /\ s.playlists \in PlaylistCounts /\ s.warnings \in Seq(Places)
         /\ s.counters \in CounterRecords /\ s.budget \in {"left", "spent", "reported"}
         /\ s.counters.indexBytes \in Nat /\ s.counters.warningBytes \in Nat
BY DEF Scans, CounterRecords

(* The index of a scan, and what it is charged. *)
SameIndex(s, t) ==
  /\ t.assets = s.assets /\ t.entries = s.entries /\ t.playlists = s.playlists
  /\ t.warnings = s.warnings /\ t.counters.indexBytes = s.counters.indexBytes

LEMMA SetProgress ==
  ASSUME NEW s \in Scans, NEW v \in {"clean", "degraded", "exhausted", "stopped"}
  PROVE  LET t == [s EXCEPT !.progress = v] IN
         /\ t \in Scans /\ t.progress = v /\ t.openFiles = s.openFiles
         /\ t.budget = s.budget /\ t.counters = s.counters /\ SameIndex(s, t)
BY DEF Scans, SameIndex

LEMMA SetBudget ==
  ASSUME NEW s \in Scans, NEW v \in {"left", "spent", "reported"}
  PROVE  LET t == [s EXCEPT !.budget = v] IN
         /\ t \in Scans /\ t.progress = s.progress /\ t.openFiles = s.openFiles
         /\ t.budget = v /\ SameIndex(s, t)
BY DEF Scans, SameIndex

LEMMA SetOpenFiles ==
  ASSUME NEW s \in Scans, NEW v \in Int
  PROVE  LET t == [s EXCEPT !.openFiles = v] IN
         /\ t \in Scans /\ t.progress = s.progress /\ t.openFiles = v
         /\ t.budget = s.budget /\ t.counters = s.counters /\ SameIndex(s, t)
BY DEF Scans, SameIndex

(* The counters. *)
LEMMA CounterAdds ==
  ASSUME NEW r \in CounterRecords, NEW c \in Nat
  PROVE  /\ [r EXCEPT !.indexBytes = r.indexBytes + c] \in CounterRecords
         /\ [r EXCEPT !.indexBytes = r.indexBytes + c].indexBytes = r.indexBytes + c
         /\ [r EXCEPT !.warningBytes = r.warningBytes + c] \in CounterRecords
         /\ [r EXCEPT !.warningBytes = r.warningBytes + c].indexBytes = r.indexBytes
         /\ [r EXCEPT !.metadataBytes = r.metadataBytes + c] \in CounterRecords
         /\ [r EXCEPT !.metadataBytes = r.metadataBytes + c].indexBytes = r.indexBytes
         /\ [r EXCEPT !.pathBytes = r.pathBytes + c] \in CounterRecords
         /\ [r EXCEPT !.pathBytes = r.pathBytes + c].indexBytes = r.indexBytes
BY DEF CounterRecords

LEMMA CounterWarns ==
  ASSUME NEW r \in CounterRecords, NEW c \in Nat
  PROVE  LET q == [[r EXCEPT !.warningBytes = r.warningBytes + c]
                     EXCEPT !.indexBytes = r.indexBytes + c] IN
         q \in CounterRecords /\ q.indexBytes = r.indexBytes + c
<1> DEFINE q == [r EXCEPT !.warningBytes = r.warningBytes + c]
<1>1. q \in CounterRecords /\ q.indexBytes = r.indexBytes
  BY CounterAdds
<1> HIDE DEF q
<1>2. /\ [q EXCEPT !.indexBytes = q.indexBytes + c] \in CounterRecords
      /\ [q EXCEPT !.indexBytes = q.indexBytes + c].indexBytes = q.indexBytes + c
  BY <1>1, CounterAdds
<1> QED
  BY <1>1, <1>2 DEF q

LEMMA CounterCounts ==
  ASSUME NEW r \in CounterRecords
  PROVE  /\ [r EXCEPT !.mediaFiles = r.mediaFiles + 1] \in CounterRecords
         /\ [r EXCEPT !.mediaFiles = r.mediaFiles + 1].indexBytes = r.indexBytes
         /\ [r EXCEPT !.encountered = r.encountered + 1] \in CounterRecords
         /\ [r EXCEPT !.encountered = r.encountered + 1].indexBytes = r.indexBytes
         /\ [r EXCEPT !.parses = r.parses + 1] \in CounterRecords
         /\ [r EXCEPT !.parses = r.parses + 1].indexBytes = r.indexBytes
         /\ [r EXCEPT !.symlinks = r.symlinks + 1] \in CounterRecords
         /\ [r EXCEPT !.symlinks = r.symlinks + 1].indexBytes = r.indexBytes
BY DEF CounterRecords

LEMMA SetRecord ==
  ASSUME NEW s \in Scans, NEW r \in CounterRecords
  PROVE  LET t == [s EXCEPT !.counters = r] IN
         /\ t \in Scans /\ t.progress = s.progress /\ t.openFiles = s.openFiles
         /\ t.budget = s.budget /\ t.assets = s.assets /\ t.entries = s.entries
         /\ t.playlists = s.playlists /\ t.warnings = s.warnings /\ t.counters = r
BY DEF Scans

LEMMA SetWarnings ==
  ASSUME NEW s \in Scans, NEW r \in CounterRecords, NEW w \in Seq(Places)
  PROVE  LET t == [s EXCEPT !.counters = r, !.warnings = w] IN
         /\ t \in Scans /\ t.progress = s.progress /\ t.openFiles = s.openFiles
         /\ t.budget = s.budget /\ t.assets = s.assets /\ t.entries = s.entries
         /\ t.playlists = s.playlists /\ t.warnings = w /\ t.counters = r
BY DEF Scans

LEMMA SetAssets ==
  ASSUME NEW s \in Scans, NEW r \in CounterRecords, NEW w \in Seq(AssetRecords)
  PROVE  LET t == [s EXCEPT !.counters = r, !.assets = w] IN
         /\ t \in Scans /\ t.progress = s.progress /\ t.openFiles = s.openFiles
         /\ t.budget = s.budget /\ t.assets = w /\ t.entries = s.entries
         /\ t.playlists = s.playlists /\ t.warnings = s.warnings /\ t.counters = r
BY DEF Scans

LEMMA SetEntries ==
  ASSUME NEW s \in Scans, NEW w \in Seq(EntryRecords)
  PROVE  LET t == [s EXCEPT !.entries = w] IN
         /\ t \in Scans /\ t.progress = s.progress /\ t.openFiles = s.openFiles
         /\ t.budget = s.budget /\ t.assets = s.assets /\ t.entries = w
         /\ t.playlists = s.playlists /\ t.warnings = s.warnings /\ t.counters = s.counters
BY DEF Scans

LEMMA SetPlaylists ==
  ASSUME NEW s \in Scans, NEW list \in Lists
  PROVE  LET t == [s EXCEPT !.playlists =
                     [l \in DOMAIN @ \cup {list} |-> IF l = list THEN 0 ELSE @[l]]] IN
         /\ t \in Scans /\ t.progress = s.progress /\ t.openFiles = s.openFiles
         /\ t.budget = s.budget /\ t.assets = s.assets /\ t.entries = s.entries
         /\ t.playlists = [l \in DOMAIN s.playlists \cup {list} |->
                             IF l = list THEN 0 ELSE s.playlists[l]]
         /\ t.warnings = s.warnings /\ t.counters.indexBytes = s.counters.indexBytes
<1> DEFINE counts == [l \in DOMAIN s.playlists \cup {list} |->
                        IF l = list THEN 0 ELSE s.playlists[l]]
<1>1. counts \in PlaylistCounts
  <2>1. DOMAIN s.playlists \subseteq Lists /\ s.playlists \in [DOMAIN s.playlists -> Nat]
    BY ScanFields, CountsOfLists
  <2>2. DOMAIN counts \subseteq Lists /\ counts \in [DOMAIN counts -> Nat]
    BY <2>1
  <2> QED
    BY <2>2, CountsOfLists
<1> HIDE DEF counts
<1>2. LET t == [s EXCEPT !.playlists = counts] IN
         /\ t \in Scans /\ t.progress = s.progress /\ t.openFiles = s.openFiles
         /\ t.budget = s.budget /\ t.assets = s.assets /\ t.entries = s.entries
         /\ t.playlists = counts
         /\ t.warnings = s.warnings /\ t.counters.indexBytes = s.counters.indexBytes
  BY <1>1 DEF Scans
<1> QED
  BY <1>2 DEF counts

LEMMA SetEntryCount ==
  ASSUME NEW s \in Scans, NEW list \in DOMAIN s.playlists
  PROVE  LET t == [s EXCEPT !.playlists[list] = @ + 1] IN
         /\ t \in Scans /\ t.progress = s.progress /\ t.openFiles = s.openFiles
         /\ t.budget = s.budget /\ t.assets = s.assets /\ t.entries = s.entries
         /\ t.playlists = [s.playlists EXCEPT ![list] = @ + 1]
         /\ t.warnings = s.warnings /\ t.counters.indexBytes = s.counters.indexBytes
<1> DEFINE counts == [s.playlists EXCEPT ![list] = s.playlists[list] + 1]
<1>1. counts \in PlaylistCounts
  <2>1. DOMAIN s.playlists \subseteq Lists /\ s.playlists \in [DOMAIN s.playlists -> Nat]
    BY ScanFields, CountsOfLists
  <2>2. DOMAIN counts = DOMAIN s.playlists /\ counts \in [DOMAIN s.playlists -> Nat]
    BY <2>1
  <2> QED
    BY <2>1, <2>2, CountsOfLists
<1> HIDE DEF counts
<1>2. LET t == [s EXCEPT !.playlists = counts] IN
         /\ t \in Scans /\ t.progress = s.progress /\ t.openFiles = s.openFiles
         /\ t.budget = s.budget /\ t.assets = s.assets /\ t.entries = s.entries
         /\ t.playlists = counts
         /\ t.warnings = s.warnings /\ t.counters.indexBytes = s.counters.indexBytes
  BY <1>1 DEF Scans
<1> QED
  BY <1>2 DEF counts

-----------------------------------------------------------------------------
(* What the index holds is what it is charged. *)

LimitsOK == limits.indexBytes \in Nat /\ limits.warningBytes \in Nat

Cost(s) ==
  Charge.asset * Len(s.assets) + Charge.entry * Len(s.entries)
    + Charge.playlist * Cardinality(DOMAIN s.playlists) + Charge.warning * Len(s.warnings)

(* So many bytes were charged for something that is not in the index yet. *)
Charged(s, owed) ==
  /\ Cost(s) + owed <= s.counters.indexBytes
  /\ s.counters.indexBytes <= limits.indexBytes
  /\ s.progress # "stopped" => Cost(s) + owed = s.counters.indexBytes

ListOf(entry) == Node[entry.node].list
OfList(s, l) == {k \in DOMAIN s.entries : ListOf(s.entries[k]) = l}
HasEntry(s, n) == \E k \in DOMAIN s.entries : s.entries[k].node = n
Warns(s, n) == \E k \in DOMAIN s.warnings : s.warnings[k] = n
KnownFile(s, inode) == \E k \in DOMAIN s.assets : s.assets[k].inode = inode

Filed(s) ==
  /\ IsFiniteSet(DOMAIN s.playlists)
  /\ \A k \in DOMAIN s.entries :
       /\ ListOf(s.entries[k]) \in DOMAIN s.playlists \cup {NoPlaylist}
       /\ s.entries[k].asset \in DOMAIN s.assets
       /\ s.assets[s.entries[k].asset].inode = Node[s.entries[k].node].inode
  /\ \A l \in DOMAIN s.playlists : s.playlists[l] = Cardinality(OfList(s, l))
  /\ \A j, k \in DOMAIN s.assets : s.assets[j].inode = s.assets[k].inode => j = k
  /\ \A j, k \in DOMAIN s.entries : s.entries[j].node = s.entries[k].node => j = k

Sound(s, owed) == s \in Scans /\ Charged(s, owed) /\ Filed(s)

(* The index itself stays as it is. *)
SameFiles(s, t) ==
  /\ t.openFiles = s.openFiles /\ t.assets = s.assets /\ t.entries = s.entries
  /\ t.playlists = s.playlists /\ t.budget = s.budget

(* A scan never becomes complete again, and forgets neither warnings nor entries. *)
Later(s, t) ==
  /\ t.progress = "clean" => s.progress = "clean"
  /\ \A n : Warns(s, n) => Warns(t, n)
  /\ \A n : HasEntry(s, n) => HasEntry(t, n)

LEMMA ChargeNat ==
  /\ Charge.asset \in Nat /\ Charge.entry \in Nat
  /\ Charge.playlist \in Nat /\ Charge.warning \in Nat
BY ScanAssumption

LEMMA LaterJoined ==
  ASSUME NEW s, NEW t, NEW u, Later(s, t), Later(t, u) PROVE Later(s, u)
BY DEF Later

LEMMA SameJoined ==
  ASSUME NEW s, NEW t, NEW u, SameFiles(s, t), SameFiles(t, u) PROVE SameFiles(s, u)
BY DEF SameFiles

LEMMA OneMore == ASSUME NEW c \in Nat, NEW n \in Nat PROVE c * (n + 1) = c * n + c
OBVIOUS

LEMMA Product == ASSUME NEW c \in Nat, NEW n \in Nat PROVE c * n \in Nat
OBVIOUS

LEMMA CostParts ==
  ASSUME NEW s \in Scans, IsFiniteSet(DOMAIN s.playlists)
  PROVE  /\ Charge.asset * Len(s.assets) \in Nat /\ Charge.entry * Len(s.entries) \in Nat
         /\ Charge.playlist * Cardinality(DOMAIN s.playlists) \in Nat
         /\ Charge.warning * Len(s.warnings) \in Nat
<1>1. /\ Len(s.assets) \in Nat /\ Len(s.entries) \in Nat /\ Len(s.warnings) \in Nat
      /\ Cardinality(DOMAIN s.playlists) \in Nat
  BY ScanFields, FS_CardinalityType
<1> QED
  BY <1>1, ChargeNat, Product, Zenon

LEMMA CostNat ==
  ASSUME NEW s \in Scans, IsFiniteSet(DOMAIN s.playlists) PROVE Cost(s) \in Nat
<1> DEFINE a == Charge.asset * Len(s.assets)
           e == Charge.entry * Len(s.entries)
           p == Charge.playlist * Cardinality(DOMAIN s.playlists)
           w == Charge.warning * Len(s.warnings)
<1>1. a \in Nat /\ e \in Nat /\ p \in Nat /\ w \in Nat
  BY CostParts
<1>2. Cost(s) = a + e + p + w
  BY DEF Cost
<1> HIDE DEF a, e, p, w
<1> QED
  BY <1>1, <1>2

(* One more asset, entry, playlist or warning. *)
LEMMA CostMore ==
  ASSUME NEW s \in Scans, NEW t \in Scans,
         IsFiniteSet(DOMAIN s.playlists), IsFiniteSet(DOMAIN t.playlists)
  PROVE  LET more(a, e, p, w) ==
               /\ Len(t.assets) = Len(s.assets) + a
               /\ Len(t.entries) = Len(s.entries) + e
               /\ Cardinality(DOMAIN t.playlists) = Cardinality(DOMAIN s.playlists) + p
               /\ Len(t.warnings) = Len(s.warnings) + w
         IN  /\ more(1, 0, 0, 0) => Cost(t) = Cost(s) + Charge.asset
             /\ more(0, 1, 0, 0) => Cost(t) = Cost(s) + Charge.entry
             /\ more(0, 0, 1, 0) => Cost(t) = Cost(s) + Charge.playlist
             /\ more(0, 0, 0, 1) => Cost(t) = Cost(s) + Charge.warning
<1> DEFINE a == Len(s.assets)
           e == Len(s.entries)
           p == Cardinality(DOMAIN s.playlists)
           w == Len(s.warnings)
           aa == Len(t.assets)
           ee == Len(t.entries)
           pp == Cardinality(DOMAIN t.playlists)
           ww == Len(t.warnings)
<1>1. /\ a \in Nat /\ e \in Nat /\ p \in Nat /\ w \in Nat
      /\ aa \in Nat /\ ee \in Nat /\ pp \in Nat /\ ww \in Nat
  BY ScanFields, FS_CardinalityType
<1>2. /\ Cost(s) = Charge.asset * a + Charge.entry * e + Charge.playlist * p + Charge.warning * w
      /\ Cost(t) = Charge.asset * aa + Charge.entry * ee + Charge.playlist * pp
                     + Charge.warning * ww
  BY DEF Cost
<1> HIDE DEF a, e, p, w, aa, ee, pp, ww
<1>3. /\ Charge.asset * a \in Nat /\ Charge.entry * e \in Nat
      /\ Charge.playlist * p \in Nat /\ Charge.warning * w \in Nat
  BY <1>1, ChargeNat, Product, Zenon
<1>4. /\ Charge.asset * (a + 1) = Charge.asset * a + Charge.asset
      /\ Charge.entry * (e + 1) = Charge.entry * e + Charge.entry
      /\ Charge.playlist * (p + 1) = Charge.playlist * p + Charge.playlist
      /\ Charge.warning * (w + 1) = Charge.warning * w + Charge.warning
  BY <1>1, ChargeNat, OneMore, Zenon
<1>5. aa = a + 1 /\ ee = e /\ pp = p /\ ww = w => Cost(t) = Cost(s) + Charge.asset
  BY <1>2, <1>3, <1>4, ChargeNat
<1>6. aa = a /\ ee = e + 1 /\ pp = p /\ ww = w => Cost(t) = Cost(s) + Charge.entry
  BY <1>2, <1>3, <1>4, ChargeNat
<1>7. aa = a /\ ee = e /\ pp = p + 1 /\ ww = w => Cost(t) = Cost(s) + Charge.playlist
  BY <1>2, <1>3, <1>4, ChargeNat
<1>8. aa = a /\ ee = e /\ pp = p /\ ww = w + 1 => Cost(t) = Cost(s) + Charge.warning
  BY <1>2, <1>3, <1>4, ChargeNat
<1>9. /\ aa = a + 1 /\ ee = e + 0 /\ pp = p + 0 /\ ww = w + 0 => Cost(t) = Cost(s) + Charge.asset
      /\ aa = a + 0 /\ ee = e + 1 /\ pp = p + 0 /\ ww = w + 0 => Cost(t) = Cost(s) + Charge.entry
      /\ aa = a + 0 /\ ee = e + 0 /\ pp = p + 1 /\ ww = w + 0
           => Cost(t) = Cost(s) + Charge.playlist
      /\ aa = a + 0 /\ ee = e + 0 /\ pp = p + 0 /\ ww = w + 1
           => Cost(t) = Cost(s) + Charge.warning
  BY <1>1, <1>5, <1>6, <1>7, <1>8
<1> QED
  BY <1>9 DEF a, e, p, w, aa, ee, pp, ww

(* What leaves the index and its charge alone keeps both sound. *)
LEMMA SoundKept ==
  ASSUME NEW s, NEW t \in Scans, NEW owed, Sound(s, owed), SameIndex(s, t),
         t.progress # "stopped" => s.progress # "stopped"
  PROVE  Sound(t, owed)
<1>1. Cost(t) = Cost(s)
  BY DEF Cost, SameIndex
<1>2. Charged(t, owed)
  BY <1>1 DEF Charged, Sound, SameIndex
<1>3. \A l : OfList(t, l) = OfList(s, l)
  BY DEF OfList, SameIndex
<1>4. Filed(t)
  BY <1>3 DEF Filed, Sound, SameIndex
<1> QED
  BY <1>2, <1>4 DEF Sound

LEMMA LaterKept ==
  ASSUME NEW s, NEW t, SameIndex(s, t), t.progress = "clean" => s.progress = "clean"
  PROVE  Later(s, t)
BY DEF Later, SameIndex, Warns, HasEntry

LEMMA StoppedFacts ==
  ASSUME NEW s, NEW owed, Sound(s, owed),
         NEW v \in {"degraded", "exhausted", "stopped"},
         v # "stopped" => s.progress # "stopped"
  PROVE  LET t == [s EXCEPT !.progress = v] IN
         /\ Sound(t, owed) /\ Later(s, t) /\ SameFiles(s, t)
         /\ t.progress = v /\ SameIndex(s, t)
<1> DEFINE t == [s EXCEPT !.progress = v]
<1>0. s \in Scans /\ v \in {"clean", "degraded", "exhausted", "stopped"}
  BY DEF Sound
<1>1. /\ t \in Scans /\ t.progress = v /\ t.openFiles = s.openFiles
      /\ t.budget = s.budget /\ SameIndex(s, t)
  BY <1>0, SetProgress
<1> HIDE DEF t
<1>2. Sound(t, owed) /\ Later(s, t)
  BY <1>1, SoundKept, LaterKept
<1>3. SameFiles(s, t)
  BY <1>1 DEF SameFiles, SameIndex
<1> QED
  BY <1>1, <1>2, <1>3 DEF t

LEMMA DegradedFacts ==
  ASSUME NEW s, NEW owed, Sound(s, owed)
  PROVE  LET t == Degraded(s) IN
         /\ Sound(t, owed) /\ Later(s, t) /\ SameFiles(s, t) /\ t.progress # "clean"
<1>1. CASE s.progress = "clean"
  BY <1>1, StoppedFacts DEF Degraded
<1>2. CASE s.progress # "clean"
  <2>1. Degraded(s) = s
    BY <1>2 DEF Degraded
  <2>2. Later(s, s) /\ SameFiles(s, s)
    BY DEF Later, SameFiles
  <2> QED
    BY <1>2, <2>1, <2>2
<1> QED
  BY <1>1, <1>2

(* `warn'. *)
LEMMA WarnFacts ==
  ASSUME LimitsOK, NEW s, NEW owed \in Nat, Sound(s, owed), NEW n \in Places
  PROVE  LET t == Warn(s, n) IN
         /\ Sound(t, owed) /\ Later(s, t) /\ SameFiles(s, t)
         /\ t.progress = "clean" => Warns(t, n)
         /\ s.progress = "stopped" => t.progress = "stopped"
<1>1. CASE s.counters.warningBytes + Charge.warning > limits.warningBytes
  <2>1. Warn(s, n) = Degraded(s)
    BY <1>1 DEF Warn, WarningDropped
  <2>2. s.progress = "stopped" => Degraded(s) = s
    BY DEF Degraded
  <2> QED
    BY <2>1, <2>2, DegradedFacts
<1>2. CASE /\ ~(s.counters.warningBytes + Charge.warning > limits.warningBytes)
           /\ s.counters.indexBytes + Charge.warning > limits.indexBytes
  <2>1. Warn(s, n) = [s EXCEPT !.progress = "stopped"]
    BY <1>2 DEF Warn
  <2> QED
    BY <2>1, StoppedFacts
<1>3. CASE /\ ~(s.counters.warningBytes + Charge.warning > limits.warningBytes)
           /\ ~(s.counters.indexBytes + Charge.warning > limits.indexBytes)
  <2> DEFINE t == Warn(s, n)
             c == Charge.warning
             r == [[s.counters EXCEPT !.warningBytes = s.counters.warningBytes + c]
                     EXCEPT !.indexBytes = s.counters.indexBytes + c]
             w == Append(s.warnings, n)
  <2>0. s \in Scans /\ s.counters \in CounterRecords /\ c \in Nat
    BY ScanFields, ChargeNat DEF Sound
  <2>1. r \in CounterRecords /\ r.indexBytes = s.counters.indexBytes + c
    BY <2>0, CounterWarns
  <2>2. w \in Seq(Places) /\ Len(w) = Len(s.warnings) + 1 /\ DOMAIN s.warnings \subseteq DOMAIN w
        /\ w[Len(w)] = n /\ Len(w) \in DOMAIN w
        /\ \A k \in DOMAIN s.warnings : w[k] = s.warnings[k]
    BY ScanFields DEF Sound
  <2>3. t = [s EXCEPT !.counters = r, !.warnings = w]
    BY <1>3 DEF Warn
  <2> HIDE DEF t, r, w
  <2>4. /\ t \in Scans /\ t.progress = s.progress /\ t.openFiles = s.openFiles
        /\ t.budget = s.budget /\ t.assets = s.assets /\ t.entries = s.entries
        /\ t.playlists = s.playlists /\ t.warnings = w /\ t.counters = r
    BY <2>0, <2>1, <2>2, <2>3 DEF Scans
  <2>5. Cost(t) = Cost(s) + c
    <3>1. IsFiniteSet(DOMAIN s.playlists) /\ IsFiniteSet(DOMAIN t.playlists)
      BY <2>4 DEF Sound, Filed
    <3>2. /\ Len(s.assets) \in Nat /\ Len(s.entries) \in Nat
          /\ Cardinality(DOMAIN s.playlists) \in Nat
      BY <2>0, <3>1, ScanFields, FS_CardinalityType
    <3> QED
      BY <2>0, <2>2, <2>4, <3>1, <3>2, CostMore DEF c
  <2>6. Charged(t, owed)
    <3>1. Cost(s) \in Nat /\ c \in Nat /\ s.counters.indexBytes \in Nat
      BY CostNat, ChargeNat, ScanFields DEF Sound, Filed
    <3> HIDE DEF c
    <3> QED
      BY <1>3, <2>1, <2>4, <2>5, <3>1 DEF Charged, Sound, LimitsOK, c
  <2>7. Filed(t)
    <3>1. \A l : OfList(t, l) = OfList(s, l)
      BY <2>4 DEF OfList
    <3> QED
      BY <2>4, <3>1 DEF Filed, Sound
  <2>8. Later(s, t) /\ SameFiles(s, t) /\ Warns(t, n)
    BY <2>2, <2>4 DEF Later, SameFiles, Warns, HasEntry
  <2> QED
    BY <2>4, <2>6, <2>7, <2>8 DEF Sound, t
<1> QED
  BY <1>1, <1>2, <1>3

LEMMA LimitFacts ==
  ASSUME LimitsOK, NEW s, NEW owed \in Nat, Sound(s, owed), NEW n \in Places
  PROVE  LET t == Limit(s, n) IN
         /\ Sound(t, owed) /\ Later(s, t) /\ SameFiles(s, t) /\ t.progress = "stopped"
<1> DEFINE u == [s EXCEPT !.progress = "stopped"]
<1>1. Sound(u, owed) /\ Later(s, u) /\ SameFiles(s, u) /\ u.progress = "stopped"
  BY StoppedFacts
<1> HIDE DEF u
<1>2. /\ Sound(Warn(u, n), owed) /\ Later(u, Warn(u, n)) /\ SameFiles(u, Warn(u, n))
      /\ Warn(u, n).progress = "stopped"
  BY <1>1, WarnFacts
<1>3. Limit(s, n) = Warn(u, n)
  BY DEF Limit, u
<1> QED
  BY <1>1, <1>2, <1>3, LaterJoined, SameJoined

LEMMA EnumerationLimitFacts ==
  ASSUME LimitsOK, NEW s, NEW owed \in Nat, Sound(s, owed), NEW n \in Places
  PROVE  LET t == EnumerationLimit(s, n) IN
         /\ Sound(t, owed) /\ Later(s, t) /\ SameFiles(s, t) /\ t.progress # "clean"
<1> DEFINE v == IF s.progress = "stopped" THEN "stopped" ELSE "exhausted"
           u == [s EXCEPT !.progress = v]
<1>1. Sound(u, owed) /\ Later(s, u) /\ SameFiles(s, u) /\ u.progress # "clean"
  BY StoppedFacts
<1>2. EnumerationLimit(s, n) = Warn(u, n)
  BY DEF EnumerationLimit
<1> HIDE DEF u
<1>3. Sound(Warn(u, n), owed) /\ Later(u, Warn(u, n)) /\ SameFiles(u, Warn(u, n))
  BY <1>1, WarnFacts
<1> QED
  BY <1>1, <1>2, <1>3, LaterJoined, SameJoined DEF Later

(* `account_index': what is charged is owed to the index until it is there. *)
LEMMA AccountFacts ==
  ASSUME LimitsOK, NEW s, Sound(s, 0), NEW bytes \in Nat, NEW n \in Places
  PROVE  LET t == Account(s, bytes, n) IN
         /\ Later(s, t) /\ SameFiles(s, t)
         /\ t.progress = "stopped" => Sound(t, 0)
         /\ t.progress # "stopped" => Sound(t, bytes)
<1>1. CASE s.counters.indexBytes + bytes > limits.indexBytes
  <2>1. Account(s, bytes, n) = Limit(s, n)
    BY <1>1 DEF Account
  <2> QED
    BY <2>1, LimitFacts
<1>2. CASE ~(s.counters.indexBytes + bytes > limits.indexBytes)
  <2> DEFINE t == Account(s, bytes, n)
             r == [s.counters EXCEPT !.indexBytes = s.counters.indexBytes + bytes]
  <2>0. s \in Scans /\ s.counters \in CounterRecords /\ s.counters.indexBytes \in Nat
    BY ScanFields DEF Sound
  <2>1. r \in CounterRecords /\ r.indexBytes = s.counters.indexBytes + bytes
    BY <2>0, CounterAdds
  <2>2. t = [s EXCEPT !.counters = r]
    BY <1>2 DEF Account
  <2> HIDE DEF t, r
  <2>3. /\ t \in Scans /\ t.progress = s.progress /\ t.openFiles = s.openFiles
        /\ t.budget = s.budget /\ t.assets = s.assets /\ t.entries = s.entries
        /\ t.playlists = s.playlists /\ t.warnings = s.warnings /\ t.counters = r
    BY <2>0, <2>1, <2>2, SetRecord
  <2>4. Cost(t) = Cost(s) /\ Cost(s) \in Nat
    BY <2>0, <2>3, CostNat DEF Cost, Sound, Filed
  <2>5. Charged(t, bytes) /\ (s.progress = "stopped" => Charged(t, 0))
    BY <1>2, <2>0, <2>1, <2>3, <2>4 DEF Charged, Sound, LimitsOK
  <2>6. Filed(t)
    <3>1. \A l : OfList(t, l) = OfList(s, l)
      BY <2>3 DEF OfList
    <3> QED
      BY <2>3, <3>1 DEF Filed, Sound
  <2>7. Later(s, t) /\ SameFiles(s, t)
    BY <2>3 DEF Later, SameFiles, Warns, HasEntry
  <2> QED
    BY <2>3, <2>5, <2>6, <2>7 DEF Sound, t
<1> QED
  BY <1>1, <1>2

(* All but the number of open files. *)
SameButFiles(s, t) ==
  t.assets = s.assets /\ t.entries = s.entries /\ t.playlists = s.playlists /\ t.budget = s.budget

LEMMA SetOpen ==
  ASSUME NEW s, Sound(s, 0), NEW v \in Int
  PROVE  LET t == [s EXCEPT !.openFiles = v] IN
         /\ Sound(t, 0) /\ Later(s, t) /\ SameButFiles(s, t) /\ t.openFiles = v
         /\ t.progress = s.progress
<1> DEFINE t == [s EXCEPT !.openFiles = v]
<1>1. s \in Scans
  BY DEF Sound
<1>2. /\ t \in Scans /\ t.progress = s.progress /\ t.openFiles = v
      /\ t.budget = s.budget /\ SameIndex(s, t)
  BY <1>1, SetOpenFiles
<1> HIDE DEF t
<1>3. Sound(t, 0) /\ Later(s, t)
  BY <1>2, SoundKept, LaterKept
<1>4. SameButFiles(s, t)
  BY <1>2 DEF SameButFiles, SameIndex
<1> QED
  BY <1>2, <1>3, <1>4 DEF t

(* `acquire_open_slots'. *)
LEMMA AcquireFacts ==
  ASSUME LimitsOK, NEW s, Sound(s, 0), NEW count \in Nat, NEW n \in Places
  PROVE  LET t == Acquire(s, count, n) IN
         /\ Sound(t, 0) /\ Later(s, t) /\ SameButFiles(s, t)
         /\ Acquired(s, count) => t.openFiles = s.openFiles + count /\ t.progress = s.progress
         /\ ~Acquired(s, count) => t.openFiles = s.openFiles /\ t.progress = "stopped"
<1>1. CASE Acquired(s, count)
  <2>1. Acquire(s, count, n) = [s EXCEPT !.openFiles = s.openFiles + count]
    BY <1>1 DEF Acquire
  <2>2. s.openFiles + count \in Int
    BY ScanFields DEF Sound
  <2> QED
    BY <1>1, <2>1, <2>2, SetOpen
<1>2. CASE ~Acquired(s, count)
  <2>1. Acquire(s, count, n) = Limit(s, n)
    BY <1>2 DEF Acquire
  <2>2. SameFiles(s, Limit(s, n)) => SameButFiles(s, Limit(s, n))
    BY DEF SameFiles, SameButFiles
  <2> QED
    BY <1>2, <2>1, <2>2, LimitFacts DEF SameFiles
<1> QED
  BY <1>1, <1>2

LEMMA ReleaseFacts ==
  ASSUME NEW s, Sound(s, 0), NEW count \in Nat
  PROVE  LET t == Release(s, count) IN
         /\ Sound(t, 0) /\ Later(s, t) /\ SameButFiles(s, t)
         /\ t.openFiles = s.openFiles - count /\ t.progress = s.progress
<1>1. Release(s, count) = [s EXCEPT !.openFiles = s.openFiles - count]
  BY DEF Release
<1>2. s.openFiles - count \in Int
  BY ScanFields DEF Sound
<1> QED
  BY <1>1, <1>2, SetOpen

(* `ensure_playlist': a playlist that is new has no entries. *)
LEMMA EnsureFacts ==
  ASSUME LimitsOK, NEW s, Sound(s, 0), NEW list \in Lists, NEW n \in Places
  PROVE  LET t == EnsurePlaylist(s, list, n) IN
         /\ Sound(t, 0) /\ Later(s, t)
         /\ t.openFiles = s.openFiles /\ t.assets = s.assets /\ t.entries = s.entries
         /\ t.budget = s.budget /\ DOMAIN s.playlists \subseteq DOMAIN t.playlists
         /\ list \in DOMAIN t.playlists \/ t.progress = "stopped"
<1>1. CASE list \in DOMAIN s.playlists
  <2>1. EnsurePlaylist(s, list, n) = s
    BY <1>1 DEF EnsurePlaylist
  <2> QED
    BY <1>1, <2>1 DEF Later
<1>2. CASE list \notin DOMAIN s.playlists /\ Cardinality(DOMAIN s.playlists) >= limits.playlists
  <2>1. EnsurePlaylist(s, list, n) = Limit(s, n)
    BY <1>2 DEF EnsurePlaylist
  <2> QED
    BY <2>1, LimitFacts DEF SameFiles
<1>3. CASE /\ list \notin DOMAIN s.playlists
           /\ ~(Cardinality(DOMAIN s.playlists) >= limits.playlists)
  <2> DEFINE u == Account(s, Charge.playlist, n)
             t == [u EXCEPT !.playlists =
                     [l \in DOMAIN u.playlists \cup {list} |->
                        IF l = list THEN 0 ELSE u.playlists[l]]]
  <2>1. /\ Later(s, u) /\ SameFiles(s, u)
        /\ u.progress = "stopped" => Sound(u, 0)
        /\ u.progress # "stopped" => Sound(u, Charge.playlist)
    BY AccountFacts, ChargeNat
  <2>2. EnsurePlaylist(s, list, n) = IF u.progress = "stopped" THEN u ELSE t
    BY <1>3 DEF EnsurePlaylist, Stopped
  <2>3. CASE u.progress = "stopped"
    BY <2>1, <2>2, <2>3 DEF SameFiles
  <2>4. CASE u.progress # "stopped"
    <3> HIDE DEF u
    <3>1. Sound(u, Charge.playlist) /\ u \in Scans
      BY <2>1, <2>4 DEF Sound
    <3>2. /\ t \in Scans /\ t.progress = u.progress /\ t.openFiles = u.openFiles
          /\ t.budget = u.budget /\ t.assets = u.assets /\ t.entries = u.entries
          /\ t.playlists = [l \in DOMAIN u.playlists \cup {list} |->
                              IF l = list THEN 0 ELSE u.playlists[l]]
          /\ t.warnings = u.warnings /\ t.counters.indexBytes = u.counters.indexBytes
      BY <3>1, SetPlaylists
    <3> HIDE DEF t
    <3>3. list \notin DOMAIN u.playlists /\ list # NoPlaylist
      BY <1>3, <2>1 DEF SameFiles, Lists
    <3>4. /\ IsFiniteSet(DOMAIN u.playlists) /\ DOMAIN t.playlists = DOMAIN u.playlists \cup {list}
          /\ IsFiniteSet(DOMAIN t.playlists)
          /\ Cardinality(DOMAIN t.playlists) = Cardinality(DOMAIN u.playlists) + 1
      BY <3>1, <3>2, <3>3, FS_AddElement DEF Sound, Filed
    <3>5. Cost(t) = Cost(u) + Charge.playlist
      <4>1. Len(u.assets) \in Nat /\ Len(u.entries) \in Nat /\ Len(u.warnings) \in Nat
        BY <3>1, ScanFields
      <4> QED
        BY <3>1, <3>2, <3>4, <4>1, CostMore
    <3>6. Charged(t, 0)
      <4>1. Cost(u) \in Nat /\ Charge.playlist \in Nat /\ u.counters.indexBytes \in Nat
        BY <3>1, <3>4, CostNat, ChargeNat, ScanFields
      <4> QED
        BY <3>1, <3>2, <3>5, <4>1 DEF Charged, Sound
    <3>7. Filed(t)
      <4>1. \A l : OfList(t, l) = OfList(u, l)
        BY <3>2 DEF OfList
      <4>2. OfList(u, list) = {}
        BY <3>1, <3>3 DEF OfList, Sound, Filed
      <4>3. Cardinality({}) = 0
        BY FS_EmptySet
      <4>4. \A l \in DOMAIN t.playlists : t.playlists[l] = Cardinality(OfList(t, l))
        <5> SUFFICES ASSUME NEW l \in DOMAIN t.playlists
                     PROVE  t.playlists[l] = Cardinality(OfList(t, l))
          OBVIOUS
        <5>1. CASE l = list
          <6>1. t.playlists[l] = 0
            BY <3>2, <3>4, <5>1
          <6>2. OfList(t, l) = {}
            BY <4>1, <4>2, <5>1
          <6> QED
            BY <4>3, <6>1, <6>2
        <5>2. CASE l # list
          <6>1. l \in DOMAIN u.playlists /\ t.playlists[l] = u.playlists[l]
            BY <3>2, <3>4, <5>2
          <6>2. u.playlists[l] = Cardinality(OfList(u, l))
            BY <3>1, <6>1 DEF Sound, Filed
          <6> QED
            BY <4>1, <6>1, <6>2
        <5> QED
          BY <5>1, <5>2
      <4>5. \A k \in DOMAIN t.entries :
              /\ ListOf(t.entries[k]) \in DOMAIN t.playlists \cup {NoPlaylist}
              /\ t.entries[k].asset \in DOMAIN t.assets
              /\ t.assets[t.entries[k].asset].inode = Node[t.entries[k].node].inode
        BY <3>1, <3>2, <3>4 DEF Sound, Filed
      <4>6. /\ \A j, k \in DOMAIN t.assets : t.assets[j].inode = t.assets[k].inode => j = k
            /\ \A j, k \in DOMAIN t.entries : t.entries[j].node = t.entries[k].node => j = k
        BY <3>1, <3>2 DEF Sound, Filed
      <4> QED
        BY <3>4, <4>4, <4>5, <4>6 DEF Filed
    <3>8. Later(u, t)
      BY <3>2 DEF Later, Warns, HasEntry
    <3>9. Later(s, t)
      BY <2>1, <3>8, LaterJoined
    <3> QED
      BY <2>1, <2>2, <2>4, <3>2, <3>4, <3>6, <3>7, <3>9 DEF Sound, SameFiles
  <2> QED
    BY <2>3, <2>4
<1> QED
  BY <1>1, <1>2, <1>3

-----------------------------------------------------------------------------
(* What `accept_media' admits. *)

(* The last of a sequence that was appended to. *)
LEMMA AppendedFacts ==
  ASSUME NEW S, NEW q \in Seq(S), NEW e \in S
  PROVE  LET r == Append(q, e) IN
         /\ r \in Seq(S) /\ Len(r) = Len(q) + 1 /\ DOMAIN r = DOMAIN q \cup {Len(q) + 1}
         /\ Len(q) + 1 \notin DOMAIN q /\ r[Len(q) + 1] = e
         /\ \A k \in DOMAIN q : r[k] = q[k]
OBVIOUS

(* An entry joins the index, its playlist and its asset. *)
LEMMA EntryFiled ==
  ASSUME NEW s \in Scans, NEW t \in Scans, Filed(s), NEW e \in EntryRecords,
         t.entries = Append(s.entries, e), t.assets = s.assets, ~HasEntry(s, e.node),
         ListOf(e) \in DOMAIN s.playlists \cup {NoPlaylist},
         DOMAIN t.playlists = DOMAIN s.playlists,
         \A l \in DOMAIN s.playlists :
           t.playlists[l] = IF l = ListOf(e) THEN s.playlists[l] + 1 ELSE s.playlists[l],
         e.asset \in DOMAIN s.assets, s.assets[e.asset].inode = Node[e.node].inode
  PROVE  Filed(t)
<1> DEFINE new == Len(s.entries) + 1
<1>1. /\ DOMAIN t.entries = DOMAIN s.entries \cup {new} /\ new \notin DOMAIN s.entries
      /\ t.entries[new] = e /\ \A k \in DOMAIN s.entries : t.entries[k] = s.entries[k]
  BY ScanFields, AppendedFacts
<1>2. IsFiniteSet(DOMAIN s.entries)
  <2>1. DOMAIN s.entries = 1 .. Len(s.entries) /\ Len(s.entries) \in Nat
    BY ScanFields
  <2> QED
    BY <2>1, FS_Interval
<1> HIDE DEF new
<1>3. \A k \in DOMAIN t.entries :
        /\ ListOf(t.entries[k]) \in DOMAIN t.playlists \cup {NoPlaylist}
        /\ t.entries[k].asset \in DOMAIN t.assets
        /\ t.assets[t.entries[k].asset].inode = Node[t.entries[k].node].inode
  <2> SUFFICES ASSUME NEW k \in DOMAIN t.entries
               PROVE  /\ ListOf(t.entries[k]) \in DOMAIN t.playlists \cup {NoPlaylist}
                      /\ t.entries[k].asset \in DOMAIN t.assets
                      /\ t.assets[t.entries[k].asset].inode = Node[t.entries[k].node].inode
    OBVIOUS
  <2>1. CASE k = new
    BY <1>1, <2>1
  <2>2. CASE k \in DOMAIN s.entries
    BY <1>1, <2>2 DEF Filed
  <2> QED
    BY <1>1, <2>1, <2>2
<1>4. ASSUME NEW l \in DOMAIN t.playlists PROVE t.playlists[l] = Cardinality(OfList(t, l))
  <2>1. s.playlists[l] = Cardinality(OfList(s, l)) /\ IsFiniteSet(OfList(s, l))
    <3>1. OfList(s, l) \subseteq DOMAIN s.entries
      BY DEF OfList
    <3> QED
      BY <1>2, <3>1, FS_Subset DEF Filed
  <2>2. CASE l = ListOf(e)
    <3>1. OfList(t, l) = OfList(s, l) \cup {new} /\ new \notin OfList(s, l)
      BY <1>1, <2>2 DEF OfList
    <3>2. Cardinality(OfList(t, l)) = Cardinality(OfList(s, l)) + 1
      BY <2>1, <3>1, FS_AddElement
    <3> QED
      BY <2>1, <2>2, <3>2
  <2>3. CASE l # ListOf(e)
    <3>1. OfList(t, l) = OfList(s, l)
      BY <1>1, <2>3 DEF OfList
    <3> QED
      BY <2>1, <2>3, <3>1
  <2> QED
    BY <2>2, <2>3
<1>5. \A j, k \in DOMAIN t.entries : t.entries[j].node = t.entries[k].node => j = k
  <2>1. \A k \in DOMAIN s.entries : t.entries[k].node # e.node
    BY <1>1 DEF HasEntry
  <2>2. \A j, k \in DOMAIN s.entries : t.entries[j].node = t.entries[k].node => j = k
    BY <1>1 DEF Filed
  <2> QED
    BY <1>1, <2>1, <2>2
<1> QED
  BY <1>3, <1>4, <1>5 DEF Filed

(* An asset joins the index, of a file that was not known. *)
LEMMA AssetFiled ==
  ASSUME NEW s \in Scans, NEW t \in Scans, Filed(s), NEW a \in AssetRecords,
         t.assets = Append(s.assets, a), t.entries = s.entries, t.playlists = s.playlists,
         ~KnownFile(s, a.inode)
  PROVE  Filed(t)
<1> DEFINE new == Len(s.assets) + 1
<1>1. /\ DOMAIN t.assets = DOMAIN s.assets \cup {new} /\ new \notin DOMAIN s.assets
      /\ t.assets[new] = a /\ \A k \in DOMAIN s.assets : t.assets[k] = s.assets[k]
  BY ScanFields, AppendedFacts
<1> HIDE DEF new
<1>2. \A l : OfList(t, l) = OfList(s, l)
  BY DEF OfList
<1>3. \A j, k \in DOMAIN t.assets : t.assets[j].inode = t.assets[k].inode => j = k
  <2>1. \A k \in DOMAIN s.assets : t.assets[k].inode # a.inode
    BY <1>1 DEF KnownFile
  <2>2. \A j, k \in DOMAIN s.assets : t.assets[j].inode = t.assets[k].inode => j = k
    BY <1>1 DEF Filed
  <2> QED
    BY <1>1, <2>1, <2>2
<1>4. \A k \in DOMAIN t.entries :
        /\ ListOf(t.entries[k]) \in DOMAIN t.playlists \cup {NoPlaylist}
        /\ t.entries[k].asset \in DOMAIN t.assets
        /\ t.assets[t.entries[k].asset].inode = Node[t.entries[k].node].inode
  BY <1>1 DEF Filed
<1> QED
  BY <1>2, <1>3, <1>4 DEF Filed

(* A node is admitted, and nothing else: the other entries stay. *)
Admits(s, t, n) ==
  /\ Sound(t, 0) /\ Later(s, t)
  /\ t.openFiles = s.openFiles
  /\ HasEntry(t, n) \/ t.progress # "clean"
  /\ \A m : HasEntry(t, m) => HasEntry(s, m) \/ m = n

(* The node is new, and its playlist is there. *)
Admittable(s, n) ==
  ~HasEntry(s, n) /\ Node[n].list \in DOMAIN s.playlists \cup {NoPlaylist}

LEMMA AdmitEntryFacts ==
  ASSUME LimitsOK, NEW s, Sound(s, 0), NEW n \in Nodes, Admittable(s, n),
         NEW asset \in DOMAIN s.assets, s.assets[asset].inode = Node[n].inode
  PROVE  Admits(s, AdmitEntry(s, n, asset), n)
<1> DEFINE u == Account(s, Charge.entry, n)
           e == [node |-> n, asset |-> asset]
           list == Node[n].list
           q == Append(u.entries, e)
           v == [u EXCEPT !.entries = q]
           t == IF list = NoPlaylist THEN v ELSE [v EXCEPT !.playlists[list] = @ + 1]
<1>1. /\ Later(s, u) /\ SameFiles(s, u)
      /\ u.progress = "stopped" => Sound(u, 0)
      /\ u.progress # "stopped" => Sound(u, Charge.entry)
  BY AccountFacts, ChargeNat DEF Places
<1>2. AdmitEntry(s, n, asset) = IF u.progress = "stopped" THEN u ELSE t
  BY DEF AdmitEntry, Stopped
<1>3. CASE u.progress = "stopped"
  <2> HIDE DEF u
  <2> QED
    BY <1>1, <1>2, <1>3 DEF Admits, SameFiles, HasEntry
<1>4. CASE u.progress # "stopped"
  <2> HIDE DEF u
  <2>1. u \in Scans /\ Sound(u, Charge.entry) /\ Filed(u)
    BY <1>1, <1>4 DEF Sound
  <2>2. e \in EntryRecords /\ e.node = n /\ e.asset = asset /\ ListOf(e) = list
    <3>1. asset \in Nat
      BY ScanFields DEF Sound
    <3> QED
      BY <3>1 DEF EntryRecords, ListOf
  <2> HIDE DEF e
  <2>3. /\ q \in Seq(EntryRecords) /\ Len(q) = Len(u.entries) + 1
        /\ DOMAIN q = DOMAIN u.entries \cup {Len(u.entries) + 1}
        /\ q[Len(u.entries) + 1] = e /\ \A k \in DOMAIN u.entries : q[k] = u.entries[k]
    BY <2>1, <2>2, ScanFields, AppendedFacts
  <2>4. /\ v \in Scans /\ v.progress = u.progress /\ v.openFiles = u.openFiles
        /\ v.budget = u.budget /\ v.assets = u.assets /\ v.entries = q
        /\ v.playlists = u.playlists /\ v.warnings = u.warnings /\ v.counters = u.counters
    <3> HIDE DEF q
    <3> QED
      BY <2>1, <2>3, SetEntries
  <2> HIDE DEF v
  <2>5. list \in DOMAIN v.playlists \cup {NoPlaylist} /\ NoPlaylist \notin DOMAIN v.playlists
        /\ v.playlists \in [DOMAIN v.playlists -> Nat]
    <3>1. list \in DOMAIN s.playlists \cup {NoPlaylist}
      BY DEF Admittable
    <3>2. DOMAIN v.playlists \subseteq Lists /\ v.playlists \in [DOMAIN v.playlists -> Nat]
      BY <2>4, ScanFields, CountsOfLists
    <3> QED
      BY <1>1, <2>4, <3>1, <3>2 DEF SameFiles, Lists
  <2>6. /\ t \in Scans /\ t.progress = u.progress /\ t.openFiles = u.openFiles
        /\ t.budget = u.budget /\ t.assets = u.assets /\ t.entries = q
        /\ t.warnings = u.warnings /\ t.counters.indexBytes = u.counters.indexBytes
        /\ DOMAIN t.playlists = DOMAIN u.playlists
        /\ \A l \in DOMAIN u.playlists :
             t.playlists[l] = IF l = list THEN u.playlists[l] + 1 ELSE u.playlists[l]
    <3>1. CASE list = NoPlaylist
      BY <2>4, <2>5, <3>1
    <3>2. CASE list # NoPlaylist
      <4>1. list \in DOMAIN v.playlists /\ t = [v EXCEPT !.playlists[list] = @ + 1]
        BY <2>5, <3>2
      <4> HIDE DEF list, t
      <4>2. LET x == [v EXCEPT !.playlists[list] = @ + 1] IN
            /\ x \in Scans /\ x.progress = v.progress /\ x.openFiles = v.openFiles
            /\ x.budget = v.budget /\ x.assets = v.assets /\ x.entries = v.entries
            /\ x.playlists = [v.playlists EXCEPT ![list] = @ + 1]
            /\ x.warnings = v.warnings /\ x.counters.indexBytes = v.counters.indexBytes
        BY <2>4, <4>1, SetEntryCount
      <4> QED
        BY <2>4, <2>5, <4>1, <4>2
    <3> QED
      BY <3>1, <3>2
  <2> HIDE DEF t
  <2>7. ~HasEntry(u, n)
    BY <1>1 DEF Admittable, HasEntry, SameFiles
  <2>8. Filed(t)
    <3>1. asset \in DOMAIN u.assets /\ u.assets[asset].inode = Node[n].inode
      BY <1>1 DEF SameFiles
    <3> HIDE DEF q, list
    <3>2. ListOf(e) \in DOMAIN u.playlists \cup {NoPlaylist}
      BY <2>2, <2>4, <2>5
    <3> QED
      BY <2>1, <2>2, <2>6, <2>7, <3>1, <3>2, EntryFiled DEF q
  <2>9. Charged(t, 0)
    <3>1. IsFiniteSet(DOMAIN u.playlists) /\ IsFiniteSet(DOMAIN t.playlists)
      BY <2>1, <2>6 DEF Filed
    <3>2. /\ Len(u.assets) \in Nat /\ Len(u.warnings) \in Nat
          /\ Cardinality(DOMAIN u.playlists) \in Nat
      BY <2>1, <3>1, ScanFields, FS_CardinalityType
    <3> HIDE DEF q
    <3>3. Cost(t) = Cost(u) + Charge.entry
      <4>1. u \in Scans /\ t \in Scans
        BY <2>1, <2>6
      <4>2. /\ Len(t.assets) = Len(u.assets) + 0 /\ Len(t.entries) = Len(u.entries) + 1
            /\ Cardinality(DOMAIN t.playlists) = Cardinality(DOMAIN u.playlists) + 0
            /\ Len(t.warnings) = Len(u.warnings) + 0
        BY <2>3, <2>6, <3>2
      <4> QED
        BY <3>1, <4>1, <4>2, CostMore
    <3>4. Cost(u) \in Nat /\ Charge.entry \in Nat /\ u.counters.indexBytes \in Nat
      BY <2>1, <3>1, CostNat, ChargeNat, ScanFields
    <3> QED
      BY <2>1, <2>6, <3>3, <3>4 DEF Charged, Sound
  <2>10. HasEntry(t, n) /\ \A m : HasEntry(t, m) <=> HasEntry(u, m) \/ m = n
    <3> HIDE DEF q
    <3>1. \A k \in DOMAIN q : k \in DOMAIN u.entries \/ q[k] = e
      BY <2>3
    <3> QED
      BY <2>2, <2>3, <2>6, <3>1 DEF HasEntry
  <2>11. Later(u, t)
    BY <2>6, <2>10 DEF Later, Warns
  <2>12. Later(s, t)
    BY <1>1, <2>11, LaterJoined
  <2>13. \A m : HasEntry(u, m) => HasEntry(s, m)
    BY <1>1 DEF SameFiles, HasEntry
  <2> QED
    BY <1>1, <1>2, <1>4, <2>6, <2>8, <2>9, <2>10, <2>12, <2>13 DEF Admits, Sound, SameFiles
<1> QED
  BY <1>3, <1>4

LEMMA AdmitsLater ==
  ASSUME NEW s, NEW u, NEW t, NEW n, Later(s, u), u.openFiles = s.openFiles,
         u.entries = s.entries, Admits(u, t, n)
  PROVE  Admits(s, t, n)
<1>1. Later(s, t)
  BY LaterJoined DEF Admits
<1>2. \A m : HasEntry(u, m) => HasEntry(s, m)
  BY DEF HasEntry
<1> QED
  BY <1>1, <1>2 DEF Admits

LEMMA AdmitAssetFacts ==
  ASSUME LimitsOK, NEW s, Sound(s, 0), NEW n \in Nodes, Admittable(s, n),
         Node[n].inode \in Inodes, ~KnownFile(s, Node[n].inode), NEW tags \in Int
  PROVE  Admits(s, AdmitAsset(s, n, tags), n)
<1> DEFINE u == Account(s, Charge.asset, n)
           a == [inode |-> Node[n].inode, tags |-> tags]
           x == IF tags = NoTags THEN 0 ELSE TagBytes[Node[n].inode]
           r == [u.counters EXCEPT !.metadataBytes = u.counters.metadataBytes + x]
           q == Append(u.assets, a)
           v == [u EXCEPT !.counters = r, !.assets = q]
           new == Len(s.assets) + 1
<1>1. /\ Later(s, u) /\ SameFiles(s, u)
      /\ u.progress = "stopped" => Sound(u, 0)
      /\ u.progress # "stopped" => Sound(u, Charge.asset)
  BY AccountFacts, ChargeNat DEF Places
<1>2. AdmitAsset(s, n, tags) = IF u.progress = "stopped" THEN u ELSE AdmitEntry(v, n, new)
  BY DEF AdmitAsset, Stopped
<1>3. CASE u.progress = "stopped"
  <2> HIDE DEF u
  <2> QED
    BY <1>1, <1>2, <1>3 DEF Admits, SameFiles, HasEntry
<1>4. CASE u.progress # "stopped"
  <2> HIDE DEF u
  <2>1. u \in Scans /\ Sound(u, Charge.asset) /\ Filed(u)
    BY <1>1, <1>4 DEF Sound
  <2>2. a \in AssetRecords /\ a.inode = Node[n].inode
    BY DEF AssetRecords
  <2> HIDE DEF a
  <2>3. /\ q \in Seq(AssetRecords) /\ Len(q) = Len(u.assets) + 1
        /\ DOMAIN q = DOMAIN u.assets \cup {Len(u.assets) + 1}
        /\ q[Len(u.assets) + 1] = a /\ \A k \in DOMAIN u.assets : q[k] = u.assets[k]
    BY <2>1, <2>2, ScanFields, AppendedFacts
  <2>4. r \in CounterRecords /\ r.indexBytes = u.counters.indexBytes
    <3>1. x \in Nat
      BY ScanAssumption, CacheAssumption
    <3> HIDE DEF x
    <3> QED
      BY <2>1, <3>1, ScanFields, CounterAdds
  <2>5. /\ v \in Scans /\ v.progress = u.progress /\ v.openFiles = u.openFiles
        /\ v.budget = u.budget /\ v.assets = q /\ v.entries = u.entries
        /\ v.playlists = u.playlists /\ v.warnings = u.warnings /\ v.counters = r
    <3>1. v = [u EXCEPT !.counters = r, !.assets = q]
      OBVIOUS
    <3> HIDE DEF v, q, r
    <3> QED
      BY <2>1, <2>3, <2>4, <3>1 DEF Scans
  <2> HIDE DEF v, r
  <2>6. ~KnownFile(u, a.inode)
    BY <1>1, <2>2 DEF SameFiles, KnownFile
  <2>7. Filed(v)
    BY <2>1, <2>2, <2>5, <2>6, AssetFiled
  <2>8. Charged(v, 0)
    <3>1. IsFiniteSet(DOMAIN u.playlists) /\ IsFiniteSet(DOMAIN v.playlists)
      BY <2>1, <2>5 DEF Filed
    <3>2. /\ Len(u.entries) \in Nat /\ Len(u.warnings) \in Nat
          /\ Cardinality(DOMAIN u.playlists) \in Nat
      BY <2>1, <3>1, ScanFields, FS_CardinalityType
    <3> HIDE DEF q
    <3>3. Cost(v) = Cost(u) + Charge.asset
      <4>1. u \in Scans /\ v \in Scans
        BY <2>1, <2>5
      <4>2. /\ Len(v.assets) = Len(u.assets) + 1 /\ Len(v.entries) = Len(u.entries) + 0
            /\ Cardinality(DOMAIN v.playlists) = Cardinality(DOMAIN u.playlists) + 0
            /\ Len(v.warnings) = Len(u.warnings) + 0
        BY <2>3, <2>5, <3>2
      <4> QED
        BY <3>1, <4>1, <4>2, CostMore
    <3>4. Cost(u) \in Nat /\ Charge.asset \in Nat /\ u.counters.indexBytes \in Nat
      BY <2>1, <3>1, CostNat, ChargeNat, ScanFields
    <3> QED
      BY <2>1, <2>4, <2>5, <3>3, <3>4 DEF Charged, Sound
  <2>9. new \in DOMAIN v.assets /\ v.assets[new] = a
    BY <1>1, <2>3, <2>5 DEF SameFiles
  <2>10. Later(s, v) /\ v.openFiles = s.openFiles /\ v.entries = s.entries
    <3>1. Later(u, v)
      BY <2>5 DEF Later, Warns, HasEntry
    <3> QED
      BY <1>1, <2>5, <3>1, LaterJoined DEF SameFiles
  <2>11. Admittable(v, n)
    BY <1>1, <2>5 DEF Admittable, HasEntry, SameFiles
  <2> HIDE DEF q, new
  <2>12. Admits(v, AdmitEntry(v, n, new), n)
    BY <2>2, <2>5, <2>7, <2>8, <2>9, <2>11, AdmitEntryFacts DEF Sound
  <2> QED
    BY <1>2, <1>4, <2>10, <2>12, AdmitsLater
<1> QED
  BY <1>3, <1>4

(* `validate_tags'. *)
LEMMA ValidatedFacts ==
  ASSUME LimitsOK, NEW s, Sound(s, 0), NEW n \in Nodes, NEW tags \in Int
  PROVE  LET v == Validated(s, n, tags) IN
         Sound(v.scan, 0) /\ Later(s, v.scan) /\ SameFiles(s, v.scan) /\ v.tags \in Int
<1>0. n \in Places /\ NoTags \in Int
  BY DEF Places, NoTags
<1>1. CASE tags = NoTags \/ Node[n].inode \in LongTags
  <2>1. Validated(s, n, tags) = [scan |-> Warn(s, n), tags |-> NoTags]
    BY <1>1 DEF Validated
  <2> QED
    BY <1>0, <2>1, WarnFacts
<1>2. CASE /\ ~(tags = NoTags \/ Node[n].inode \in LongTags)
           /\ s.counters.metadataBytes + TagBytes[Node[n].inode] > limits.metadataBytes
  <2>1. Validated(s, n, tags) = [scan |-> Limit(s, n), tags |-> NoTags]
    BY <1>2 DEF Validated
  <2> QED
    BY <1>0, <2>1, LimitFacts
<1>3. CASE /\ ~(tags = NoTags \/ Node[n].inode \in LongTags)
           /\ ~(s.counters.metadataBytes + TagBytes[Node[n].inode] > limits.metadataBytes)
  <2>1. Validated(s, n, tags) = [scan |-> s, tags |-> tags]
    BY <1>3 DEF Validated
  <2>2. Later(s, s) /\ SameFiles(s, s)
    BY DEF Later, SameFiles
  <2> QED
    BY <2>1, <2>2
<1> QED
  BY <1>1, <1>2, <1>3

LEMMA AdmitParsedFacts ==
  ASSUME LimitsOK, NEW s, Sound(s, 0), NEW n \in Nodes, Admittable(s, n),
         Node[n].inode \in Inodes, ~KnownFile(s, Node[n].inode), NEW tags \in Int
  PROVE  Admits(s, AdmitParsed(s, n, tags), n)
<1> DEFINE v == Validated(s, n, tags)
           u == v.scan
<1>1. Sound(u, 0) /\ Later(s, u) /\ SameFiles(s, u) /\ v.tags \in Int
  BY ValidatedFacts
<1>2. AdmitParsed(s, n, tags) = AdmitAsset(u, n, v.tags)
  BY DEF AdmitParsed
<1> HIDE DEF v, u
<1>3. Admittable(u, n) /\ ~KnownFile(u, Node[n].inode)
  BY <1>1 DEF Admittable, KnownFile, HasEntry, SameFiles
<1>4. Admits(u, AdmitAsset(u, n, v.tags), n)
  BY <1>1, <1>3, AdmitAssetFacts
<1> QED
  BY <1>1, <1>2, <1>4, AdmitsLater DEF SameFiles

(* Counters that are not part of the index. *)
LEMMA RecordKept ==
  ASSUME NEW s, Sound(s, 0), NEW r \in CounterRecords, r.indexBytes = s.counters.indexBytes
  PROVE  LET t == [s EXCEPT !.counters = r] IN
         Sound(t, 0) /\ Later(s, t) /\ SameFiles(s, t) /\ t.progress = s.progress
<1> DEFINE t == [s EXCEPT !.counters = r]
<1>1. s \in Scans
  BY DEF Sound
<1>2. /\ t \in Scans /\ t.progress = s.progress /\ t.openFiles = s.openFiles
      /\ t.budget = s.budget /\ t.assets = s.assets /\ t.entries = s.entries
      /\ t.playlists = s.playlists /\ t.warnings = s.warnings /\ t.counters = r
  BY <1>1, SetRecord
<1> HIDE DEF t
<1>3. SameIndex(s, t) /\ SameFiles(s, t)
  BY <1>2 DEF SameIndex, SameFiles
<1>4. Sound(t, 0) /\ Later(s, t)
  BY <1>2, <1>3, SoundKept, LaterKept
<1> QED
  BY <1>2, <1>3, <1>4 DEF t

LEMMA CountedOne ==
  ASSUME NEW s, Sound(s, 0)
  PROVE  \A t \in {[s EXCEPT !.counters.mediaFiles = @ + 1],
                   [s EXCEPT !.counters.encountered = @ + 1],
                   [s EXCEPT !.counters.parses = @ + 1],
                   [s EXCEPT !.counters.symlinks = @ + 1]} :
           Sound(t, 0) /\ Later(s, t) /\ SameFiles(s, t) /\ t.progress = s.progress
<1> DEFINE c == s.counters
           f == [c EXCEPT !.mediaFiles = c.mediaFiles + 1]
           e == [c EXCEPT !.encountered = c.encountered + 1]
           p == [c EXCEPT !.parses = c.parses + 1]
           l == [c EXCEPT !.symlinks = c.symlinks + 1]
<1>1. c \in CounterRecords
  BY ScanFields DEF Sound
<1>2. /\ f \in CounterRecords /\ f.indexBytes = c.indexBytes
      /\ e \in CounterRecords /\ e.indexBytes = c.indexBytes
      /\ p \in CounterRecords /\ p.indexBytes = c.indexBytes
      /\ l \in CounterRecords /\ l.indexBytes = c.indexBytes
  BY <1>1, CounterCounts
<1> HIDE DEF f, e, p, l
<1>3. \A r \in {f, e, p, l} : LET t == [s EXCEPT !.counters = r] IN
        Sound(t, 0) /\ Later(s, t) /\ SameFiles(s, t) /\ t.progress = s.progress
  BY <1>2, RecordKept
<1> QED
  BY <1>3 DEF f, e, p, l


-----------------------------------------------------------------------------
(* What the handlers are made of. *)

LEMMA ListKnown ==
  ASSUME NEW n \in Nodes PROVE Node[n].list # NoPlaylist => Node[n].list \in Lists
BY DEF Lists

LEMMA InPlaces == ASSUME NEW n \in Nodes PROVE n \in Places
BY DEF Places

(* A playlist is named by a directory or a file of it. *)
LEMMA PlaylistInPlaces ==
  ASSUME NEW l \in Lists PROVE PlaylistPath(l) \in Places
<1>1. \E m \in Nodes : Node[m].list = l /\ SecondLevel(m)
  BY ScanAssumption DEF Lists
<1>2. PlaylistPath(l) \in Nodes
  BY <1>1 DEF PlaylistPath
<1> QED
  BY <1>2, InPlaces

(* `accept_media' counts a file, or refuses it and says that the scan is not complete. *)
LEMMA CountedFacts ==
  ASSUME LimitsOK, NEW s, Sound(s, 0), NEW n \in Nodes
  PROVE  LET c == Counted(s, n)
             t == c.scan
         IN  /\ Sound(t, 0) /\ Later(s, t)
             /\ t.openFiles = s.openFiles /\ t.assets = s.assets /\ t.entries = s.entries
             /\ c.accepted => Node[n].list \in DOMAIN t.playlists \cup {NoPlaylist}
             /\ ~c.accepted => t.progress # "clean"
<1> DEFINE list == Node[n].list
           path == PlaylistPath(list)
           e == IF list = NoPlaylist THEN s ELSE EnsurePlaylist(s, list, path)
           c == Counted(s, n)
           u == [e EXCEPT !.counters.mediaFiles = @ + 1]
<1>0. n \in Places
  BY InPlaces
<1>1. /\ Sound(e, 0) /\ Later(s, e)
      /\ e.openFiles = s.openFiles /\ e.assets = s.assets /\ e.entries = s.entries
      /\ list \in DOMAIN e.playlists \cup {NoPlaylist} \/ e.progress = "stopped"
  <2>1. CASE list = NoPlaylist
    BY <2>1 DEF Later
  <2>2. CASE list # NoPlaylist
    <3>1. list \in Lists /\ e = EnsurePlaylist(s, list, path)
      BY <2>2, ListKnown
    <3>2. path \in Places
      BY <3>1, PlaylistInPlaces
    <3> HIDE DEF e, list, path
    <3> QED
      BY <3>1, <3>2, EnsureFacts
  <2> QED
    BY <2>1, <2>2
<1>2. \/ c = [scan |-> Limit(s, n), accepted |-> FALSE]
      \/ c = [scan |-> e, accepted |-> FALSE] /\ ~Ensured(e, list)
      \/ c = [scan |-> Limit(e, n), accepted |-> FALSE]
      \/ c = [scan |-> u, accepted |-> TRUE] /\ Ensured(e, list)
  BY DEF Counted
<1> HIDE DEF e, c
<1>3. CASE c = [scan |-> Limit(s, n), accepted |-> FALSE]
  <2>1. c.scan = Limit(s, n) /\ c.accepted = FALSE
    BY <1>3
  <2> QED
    BY <1>0, <2>1, LimitFacts DEF SameFiles, c
<1>4. CASE c = [scan |-> e, accepted |-> FALSE] /\ ~Ensured(e, list)
  <2>1. c.scan = e /\ c.accepted = FALSE /\ e.progress = "stopped"
    BY <1>1, <1>4 DEF Ensured
  <2> QED
    BY <1>1, <2>1 DEF c
<1>5. CASE c = [scan |-> Limit(e, n), accepted |-> FALSE]
  <2>1. c.scan = Limit(e, n) /\ c.accepted = FALSE
    BY <1>5
  <2>2. /\ Sound(Limit(e, n), 0) /\ Later(e, Limit(e, n)) /\ SameFiles(e, Limit(e, n))
        /\ Limit(e, n).progress = "stopped"
    BY <1>0, <1>1, LimitFacts
  <2>3. Later(s, Limit(e, n))
    BY <1>1, <2>2, LaterJoined
  <2> QED
    BY <1>1, <2>1, <2>2, <2>3 DEF SameFiles, c
<1>6. CASE c = [scan |-> u, accepted |-> TRUE] /\ Ensured(e, list)
  <2>1. c.scan = u /\ c.accepted = TRUE
    BY <1>6
  <2>2. Sound(u, 0) /\ Later(e, u) /\ SameFiles(e, u)
    BY <1>1, CountedOne
  <2> HIDE DEF u
  <2>3. Later(s, u)
    BY <1>1, <2>2, LaterJoined
  <2>4. list \in DOMAIN u.playlists \cup {NoPlaylist}
    BY <1>6, <2>2 DEF Ensured, SameFiles
  <2> QED
    BY <1>1, <2>1, <2>2, <2>3, <2>4 DEF SameFiles, c
<1> QED
  BY <1>2, <1>3, <1>4, <1>5, <1>6

(* The helpers have no time left: said once. *)
LEMMA WithoutBudgetFacts ==
  ASSUME LimitsOK, NEW s, Sound(s, 0), NEW n \in Nodes
  PROVE  LET t == WithoutBudget(s, n) IN
         /\ Sound(t, 0) /\ Later(s, t) /\ t.openFiles = s.openFiles /\ t.assets = s.assets
         /\ t.entries = s.entries /\ t.playlists = s.playlists
<1>1. CASE s.budget = "reported"
  BY <1>1 DEF WithoutBudget, Later
<1>2. CASE s.budget # "reported"
  <2> DEFINE u == [s EXCEPT !.budget = "reported"]
             d == Degraded(u)
             t == Warn(d, n)
  <2>1. s \in Scans
    BY DEF Sound
  <2>2. u \in Scans /\ u.progress = s.progress /\ u.openFiles = s.openFiles /\ SameIndex(s, u)
    BY <2>1, SetBudget
  <2>3. WithoutBudget(s, n) = t
    BY <1>2 DEF WithoutBudget
  <2> HIDE DEF u
  <2>4. Sound(u, 0) /\ Later(s, u)
    BY <2>2, SoundKept, LaterKept
  <2>5. Sound(d, 0) /\ Later(u, d) /\ SameFiles(u, d)
    BY <2>4, DegradedFacts
  <2> HIDE DEF d
  <2>6. Sound(t, 0) /\ Later(d, t) /\ SameFiles(d, t)
    BY <2>5, InPlaces, WarnFacts
  <2> HIDE DEF t
  <2>7. Later(s, t)
    BY <2>4, <2>5, <2>6, LaterJoined
  <2> QED
    BY <2>2, <2>3, <2>5, <2>6, <2>7 DEF SameFiles, SameIndex
<1> QED
  BY <1>1, <1>2

(* `encounter': what is not admitted leaves the scan incomplete. *)
LEMMA EncounterFacts ==
  ASSUME LimitsOK, NEW s, Sound(s, 0), NEW n \in Nodes
  PROVE  LET e == Encounter(s, n)
             t == e.scan
         IN  /\ Sound(t, 0) /\ Later(s, t) /\ SameFiles(s, t)
             /\ ~e.admitted => t.progress # "clean"
<1> DEFINE c == [s EXCEPT !.counters.encountered = @ + 1]
           d == Degraded(c)
           bytes == Node[n].bytes
           p == [c EXCEPT !.counters.pathBytes = @ + bytes]
           e == Encounter(s, n)
<1>0. n \in Places
  BY InPlaces
<1>1. Sound(c, 0) /\ Later(s, c) /\ SameFiles(s, c)
  BY CountedOne
<1>2. \/ e = [scan |-> EnumerationLimit(s, n), admitted |-> FALSE]
      \/ e = [scan |-> Warn(d, n), admitted |-> FALSE]
      \/ e = [scan |-> EnumerationLimit(c, n), admitted |-> FALSE]
      \/ e = [scan |-> p, admitted |-> TRUE]
  BY DEF Encounter
<1> HIDE DEF c, e
<1>3. CASE e = [scan |-> EnumerationLimit(s, n), admitted |-> FALSE]
  <2>1. e.scan = EnumerationLimit(s, n)
    BY <1>3
  <2> QED
    BY <1>0, <2>1, EnumerationLimitFacts DEF e
<1>4. CASE e = [scan |-> Warn(d, n), admitted |-> FALSE]
  <2>1. e.scan = Warn(d, n)
    BY <1>4
  <2>2. Sound(d, 0) /\ Later(c, d) /\ SameFiles(c, d) /\ d.progress # "clean"
    BY <1>1, DegradedFacts
  <2> HIDE DEF d
  <2>3. Sound(Warn(d, n), 0) /\ Later(d, Warn(d, n)) /\ SameFiles(d, Warn(d, n))
    BY <1>0, <2>2, WarnFacts
  <2>4. Later(s, Warn(d, n)) /\ SameFiles(s, Warn(d, n))
    BY <1>1, <2>2, <2>3, LaterJoined, SameJoined
  <2>5. Warn(d, n).progress # "clean"
    BY <2>2, <2>3 DEF Later
  <2> QED
    BY <2>1, <2>3, <2>4, <2>5 DEF e
<1>5. CASE e = [scan |-> EnumerationLimit(c, n), admitted |-> FALSE]
  <2>1. e.scan = EnumerationLimit(c, n)
    BY <1>5
  <2> DEFINE t == EnumerationLimit(c, n)
  <2>2. Sound(t, 0) /\ Later(c, t) /\ SameFiles(c, t) /\ t.progress # "clean"
    BY <1>0, <1>1, EnumerationLimitFacts
  <2> HIDE DEF t
  <2>3. Later(s, t) /\ SameFiles(s, t)
    BY <1>1, <2>2, LaterJoined, SameJoined
  <2> QED
    BY <2>1, <2>2, <2>3 DEF e, t
<1>6. CASE e = [scan |-> p, admitted |-> TRUE]
  <2>1. e.scan = p /\ e.admitted = TRUE
    BY <1>6
  <2> DEFINE r == [c.counters EXCEPT !.pathBytes = c.counters.pathBytes + bytes]
  <2>2. bytes \in Nat /\ c.counters \in CounterRecords
    BY <1>1, ScanAssumption, ScanFields DEF Sound
  <2>3. r \in CounterRecords /\ r.indexBytes = c.counters.indexBytes
    BY <2>2, CounterAdds
  <2>4. p = [c EXCEPT !.counters = r]
    OBVIOUS
  <2> HIDE DEF p, r
  <2>5. Sound(p, 0) /\ Later(c, p) /\ SameFiles(c, p)
    BY <1>1, <2>3, <2>4, RecordKept
  <2>6. Later(s, p) /\ SameFiles(s, p)
    BY <1>1, <2>5, LaterJoined, SameJoined
  <2> QED
    BY <2>1, <2>5, <2>6 DEF e
<1> QED
  BY <1>2, <1>3, <1>4, <1>5, <1>6

(* `directory_entry': two more descriptors when the directory is walked; when it is
   not, that is said, or it holds nothing that is wanted. *)
LEMMA EnteredFacts ==
  ASSUME LimitsOK, NEW s, Sound(s, 0), NEW n \in Nodes, NEW opens
  PROVE  LET e == Entered(s, n, opens)
             t == e.scan
         IN  /\ Sound(t, 0) /\ Later(s, t) /\ t.entries = s.entries
             /\ e.walk \in BOOLEAN
             /\ t.openFiles = IF e.walk THEN s.openFiles + 2 ELSE s.openFiles
             /\ ~e.walk /\ t.progress = "clean" => Hidden(n) \/ ~Node[n].media \/ Warns(t, n)
<1> DEFINE list == Node[n].list
           m == IF list # NoPlaylist /\ Len(stack) = 2 THEN EnsurePlaylist(s, list, n) ELSE s
           p == Acquire(m, 1, n)
           w == Acquire(p, 1, n)
           e == Entered(s, n, opens)
<1>0. n \in Places
  BY InPlaces
<1>1. /\ Sound(m, 0) /\ Later(s, m) /\ m.openFiles = s.openFiles /\ m.entries = s.entries
      /\ Len(stack) = 2 /\ ~Ensured(m, list) => m.progress = "stopped"
  <2>1. CASE ~(list # NoPlaylist /\ Len(stack) = 2)
    BY <2>1 DEF Later, Ensured
  <2>2. CASE list # NoPlaylist /\ Len(stack) = 2
    <3>1. list \in Lists /\ m = EnsurePlaylist(s, list, n)
      BY <2>2, ListKnown
    <3> HIDE DEF m, list
    <3> QED
      BY <1>0, <3>1, EnsureFacts DEF Ensured
  <2> QED
    BY <2>1, <2>2
<1>2. \/ e = [scan |-> s, walk |-> FALSE] /\ (Hidden(n) \/ ~Node[n].media)
      \/ e = [scan |-> Limit(s, n), walk |-> FALSE]
      \/ e = [scan |-> m, walk |-> FALSE] /\ Len(stack) = 2 /\ ~Ensured(m, list)
      \/ e = [scan |-> p, walk |-> FALSE] /\ ~Acquired(m, 1)
      \/ e = [scan |-> Warn(m, n), walk |-> FALSE]
      \/ e = [scan |-> m, walk |-> FALSE] /\ ~CanEnumerate(m)
      \/ e = [scan |-> Release(w, 1), walk |-> FALSE] /\ Acquired(m, 1) /\ ~Acquired(p, 1)
      \/ e = [scan |-> w, walk |-> TRUE] /\ Acquired(m, 1) /\ Acquired(p, 1)
  <2>1. m = (IF list # NoPlaylist /\ Len(stack) = 2 THEN EnsurePlaylist(s, list, n) ELSE s)
    OBVIOUS
  <2> HIDE DEF m
  <2>2. e = IF Hidden(n) \/ ~Node[n].media THEN [scan |-> s, walk |-> FALSE]
            ELSE IF Len(stack) > limits.depth THEN [scan |-> Limit(s, n), walk |-> FALSE]
            ELSE IF Len(stack) = 2 /\ ~Ensured(m, list) THEN [scan |-> m, walk |-> FALSE]
            ELSE IF ~Acquired(m, 1) THEN [scan |-> p, walk |-> FALSE]
            ELSE IF ~opens \/ (Node[n].mounted /\ ~limits.crossMounts)
                 THEN [scan |-> Warn(m, n), walk |-> FALSE]
            ELSE IF ~CanEnumerate(m) THEN [scan |-> m, walk |-> FALSE]
            ELSE IF ~Acquired(p, 1) THEN [scan |-> Release(w, 1), walk |-> FALSE]
            ELSE [scan |-> w, walk |-> TRUE]
    BY <2>1, Zenon DEF Entered
  <2> HIDE DEF e, p, w, list
  <2> QED
    BY <2>2
<1> HIDE DEF m, e
<1>3. /\ Sound(p, 0) /\ Later(m, p) /\ p.entries = m.entries
      /\ Acquired(m, 1) => p.openFiles = m.openFiles + 1
      /\ ~Acquired(m, 1) => p.openFiles = m.openFiles /\ p.progress = "stopped"
  BY <1>0, <1>1, AcquireFacts DEF SameButFiles
<1> HIDE DEF p
<1>4. /\ Sound(w, 0) /\ Later(p, w) /\ w.entries = p.entries
      /\ Acquired(p, 1) => w.openFiles = p.openFiles + 1
      /\ ~Acquired(p, 1) => w.openFiles = p.openFiles /\ w.progress = "stopped"
  BY <1>0, <1>3, AcquireFacts DEF SameButFiles
<1> HIDE DEF w
<1>5. s.openFiles \in Int
  BY ScanFields DEF Sound
<1>6. Later(s, p) /\ Later(s, w)
  BY <1>1, <1>3, <1>4, LaterJoined
<1>a. CASE e = [scan |-> s, walk |-> FALSE] /\ (Hidden(n) \/ ~Node[n].media)
  <2>1. e.scan = s /\ e.walk = FALSE
    BY <1>a
  <2> QED
    BY <1>a, <2>1 DEF Later, e
<1>b. CASE e = [scan |-> Limit(s, n), walk |-> FALSE]
  <2>1. e.scan = Limit(s, n) /\ e.walk = FALSE
    BY <1>b
  <2> QED
    BY <1>0, <2>1, LimitFacts DEF SameFiles, e
<1>c. CASE e = [scan |-> m, walk |-> FALSE] /\ (~CanEnumerate(m) \/ m.progress = "stopped")
  <2>1. e.scan = m /\ e.walk = FALSE /\ m.progress # "clean"
    BY <1>c DEF CanEnumerate
  <2> QED
    BY <1>1, <2>1 DEF e
<1>d. CASE e = [scan |-> p, walk |-> FALSE] /\ ~Acquired(m, 1)
  <2>1. e.scan = p /\ e.walk = FALSE
    BY <1>d
  <2> QED
    BY <1>1, <1>3, <1>6, <1>d, <2>1 DEF e
<1>e. CASE e = [scan |-> Warn(m, n), walk |-> FALSE]
  <2> DEFINE t == Warn(m, n)
  <2>1. e.scan = t /\ e.walk = FALSE
    BY <1>e
  <2>2. /\ Sound(t, 0) /\ Later(m, t) /\ SameFiles(m, t) /\ (t.progress = "clean" => Warns(t, n))
    BY <1>0, <1>1, WarnFacts
  <2> HIDE DEF t
  <2>3. Later(s, t)
    BY <1>1, <2>2, LaterJoined
  <2> QED
    BY <1>1, <2>1, <2>2, <2>3 DEF SameFiles, e
<1>f. CASE e = [scan |-> Release(w, 1), walk |-> FALSE] /\ Acquired(m, 1) /\ ~Acquired(p, 1)
  <2> DEFINE t == Release(w, 1)
  <2>1. e.scan = t /\ e.walk = FALSE
    BY <1>f
  <2>2. /\ Sound(t, 0) /\ Later(w, t) /\ SameButFiles(w, t)
        /\ t.openFiles = w.openFiles - 1 /\ t.progress = w.progress
    BY <1>4, ReleaseFacts
  <2> HIDE DEF t
  <2>3. Later(s, t)
    BY <1>6, <2>2, LaterJoined
  <2>4. t.openFiles = s.openFiles /\ t.progress # "clean" /\ t.entries = s.entries
    BY <1>1, <1>3, <1>4, <1>5, <1>f, <2>2 DEF SameButFiles
  <2> QED
    BY <2>1, <2>2, <2>3, <2>4 DEF e
<1>g. CASE e = [scan |-> w, walk |-> TRUE] /\ Acquired(m, 1) /\ Acquired(p, 1)
  <2>1. e.scan = w /\ e.walk = TRUE
    BY <1>g
  <2>2. w.openFiles = s.openFiles + 2 /\ w.entries = s.entries
    BY <1>1, <1>3, <1>4, <1>5, <1>g
  <2> QED
    BY <1>4, <1>6, <2>1, <2>2 DEF e
<1> QED
  BY <1>1, <1>2, <1>a, <1>b, <1>c, <1>d, <1>e, <1>f, <1>g

(* The file is read now: two more descriptors, for its reader. *)
Reads(s, t, n) ==
  /\ Sound(t, 0) /\ Later(s, t)
  /\ t.openFiles = s.openFiles + 2 /\ t.entries = s.entries
  /\ Admittable(t, n) /\ ~KnownFile(t, Node[n].inode)

(* A node is admitted, or left out with a warning or an incomplete scan. *)
Decides(s, t, n) ==
  /\ Sound(t, 0) /\ Later(s, t)
  /\ t.openFiles = s.openFiles
  /\ HasEntry(t, n) \/ Warns(t, n) \/ t.progress # "clean"
  /\ \A m : HasEntry(t, m) => HasEntry(s, m) \/ m = n

(* `accept_media' decides about the file, or starts to read it. *)
Accepts(s, n) ==
  \E t : \/ Decides(s, t, n) /\ Commit(Release(t, 1)) /\ UNCHANGED <<admitting, parse>>
         \/ Reads(s, t, n) /\ Commit(t) /\ admitting' = n /\ parse' # NoParse

LEMMA KnownFacts ==
  ASSUME NEW s \in Scans, NEW inode
  PROVE  /\ KnownAsset(s, inode) = 0 => ~KnownFile(s, inode)
         /\ KnownAsset(s, inode) # 0
              => KnownAsset(s, inode) \in DOMAIN s.assets
                 /\ s.assets[KnownAsset(s, inode)].inode = inode
<1> DEFINE known == {k \in DOMAIN s.assets : s.assets[k].inode = inode}
<1>1. 0 \notin DOMAIN s.assets
  BY ScanFields
<1>2. CASE known = {}
  BY <1>2 DEF KnownAsset, KnownFile
<1>3. CASE known # {}
  <2>1. KnownAsset(s, inode) = CHOOSE k \in known : TRUE
    BY <1>3 DEF KnownAsset
  <2>2. KnownAsset(s, inode) \in known
    BY <1>3, <2>1
  <2> QED
    BY <1>1, <2>2
<1> QED
  BY <1>2, <1>3

LEMMA AcceptFacts ==
  ASSUME LimitsOK, CachedOK, NEW s, Sound(s, 0), NEW n \in Nodes, Node[n].audio,
         ~HasEntry(s, n), NEW regular, AcceptMedia(s, n, regular)
  PROVE  Accepts(s, n)
<1> DEFINE inode == Node[n].inode
           c == Counted(s, n)
           t == c.scan
           known == KnownAsset(t, inode)
           a == [t EXCEPT !.counters.parses = @ + 1]
           b == WithoutBudget(t, n)
           done(u) == Commit(Release(u, 1)) /\ UNCHANGED <<admitting, parse>>
<1>0. n \in Places /\ inode \in Inodes /\ NoTags \in Int
  BY InPlaces, ScanAssumption DEF NoTags
<1>1. /\ Sound(t, 0) /\ Later(s, t)
      /\ t.openFiles = s.openFiles /\ t.assets = s.assets /\ t.entries = s.entries
      /\ c.accepted => Node[n].list \in DOMAIN t.playlists \cup {NoPlaylist}
      /\ ~c.accepted => t.progress # "clean"
  BY CountedFacts
<1>2. \/ ~c.accepted /\ done(t)
      \/ c.accepted /\ done(Warn(t, n))
      \/ c.accepted /\ known # 0 /\ done(AdmitEntry(t, n, known))
      \/ /\ c.accepted /\ known = 0 /\ Hit(inode)
         /\ done(AdmitParsed(t, n, cached[Identity(inode)].tags))
      \/ c.accepted /\ known = 0 /\ done(AdmitAsset(b, n, NoTags))
      \/ c.accepted /\ known = 0 /\ done(AdmitAsset(Limit(t, n), n, NoTags))
      \/ c.accepted /\ known = 0 /\ done(AdmitAsset(Limit(a, n), n, NoTags))
      \/ /\ c.accepted /\ known = 0 /\ Acquired(a, 2)
         /\ Commit(Acquire(a, 2, n)) /\ BeginParse(inode) /\ admitting' = n
  BY DEF AcceptMedia, AcceptCounted, Closes
<1> HIDE DEF c
<1>3. ASSUME NEW u, Admits(t, u, n), done(u) PROVE Accepts(s, n)
  <2>1. Admits(s, u, n)
    BY <1>1, <1>3, AdmitsLater
  <2>2. Decides(s, u, n)
    BY <2>1 DEF Admits, Decides
  <2> QED
    BY <1>3, <2>2 DEF Accepts
<1>4. CASE ~c.accepted /\ done(t)
  <2>1. Admits(t, t, n)
    BY <1>1, <1>4 DEF Admits, Later
  <2> QED
    BY <1>3, <1>4, <2>1
<1>5. t \in Scans /\ ~HasEntry(t, n)
  BY <1>1 DEF Sound, HasEntry
<1> HIDE DEF t
<1>6. c.accepted => Admittable(t, n)
  BY <1>1, <1>5 DEF Admittable
<1>7. known = 0 => ~KnownFile(t, inode)
  BY <1>5, KnownFacts
<1>8. known # 0 => known \in DOMAIN t.assets /\ t.assets[known].inode = inode
  BY <1>5, KnownFacts
<1> HIDE DEF known
<1>9. CASE c.accepted /\ known # 0 /\ done(AdmitEntry(t, n, known))
  <2>1. Admits(t, AdmitEntry(t, n, known), n)
    BY <1>1, <1>6, <1>8, <1>9, AdmitEntryFacts
  <2> QED
    BY <1>3, <1>9, <2>1
<1>10. CASE /\ c.accepted /\ known = 0 /\ Hit(inode)
            /\ done(AdmitParsed(t, n, cached[Identity(inode)].tags))
  <2>1. cached[Identity(inode)].tags \in Int
    BY <1>10 DEF CachedOK, Hit, CacheRecords
  <2>2. Admits(t, AdmitParsed(t, n, cached[Identity(inode)].tags), n)
    BY <1>0, <1>1, <1>6, <1>7, <1>10, <2>1, AdmitParsedFacts
  <2> QED
    BY <1>3, <1>10, <2>2
<1>11. ASSUME c.accepted, known = 0, NEW u, Sound(u, 0), Later(t, u), u.openFiles = t.openFiles,
              u.assets = t.assets, u.entries = t.entries, u.playlists = t.playlists,
              done(AdmitAsset(u, n, NoTags))
       PROVE  Accepts(s, n)
  <2>1. Admittable(u, n) /\ ~KnownFile(u, inode)
    BY <1>6, <1>7, <1>11 DEF Admittable, HasEntry, KnownFile
  <2>2. Admits(u, AdmitAsset(u, n, NoTags), n)
    BY <1>0, <1>11, <2>1, AdmitAssetFacts
  <2>3. Admits(t, AdmitAsset(u, n, NoTags), n)
    BY <1>11, <2>2, AdmitsLater
  <2> QED
    BY <1>3, <1>11, <2>3
<1>12. CASE c.accepted /\ known = 0 /\ done(AdmitAsset(b, n, NoTags))
  <2>1. /\ Sound(b, 0) /\ Later(t, b) /\ b.openFiles = t.openFiles /\ b.assets = t.assets
        /\ b.entries = t.entries /\ b.playlists = t.playlists
    BY <1>1, WithoutBudgetFacts
  <2> QED
    BY <1>11, <1>12, <2>1
<1>13. CASE c.accepted /\ known = 0 /\ done(AdmitAsset(Limit(t, n), n, NoTags))
  <2>1. Sound(Limit(t, n), 0) /\ Later(t, Limit(t, n)) /\ SameFiles(t, Limit(t, n))
    BY <1>0, <1>1, LimitFacts
  <2> QED
    BY <1>11, <1>13, <2>1 DEF SameFiles
<1>14. Sound(a, 0) /\ Later(t, a) /\ SameFiles(t, a)
  BY <1>1, CountedOne
<1> HIDE DEF a
<1>15. CASE c.accepted /\ known = 0 /\ done(AdmitAsset(Limit(a, n), n, NoTags))
  <2>1. Sound(Limit(a, n), 0) /\ Later(a, Limit(a, n)) /\ SameFiles(a, Limit(a, n))
    BY <1>0, <1>14, LimitFacts
  <2>2. Later(t, Limit(a, n)) /\ SameFiles(t, Limit(a, n))
    BY <1>14, <2>1, LaterJoined, SameJoined
  <2> QED
    BY <1>11, <1>15, <2>1, <2>2 DEF SameFiles
<1>16. CASE /\ c.accepted /\ known = 0 /\ Acquired(a, 2)
            /\ Commit(Acquire(a, 2, n)) /\ BeginParse(inode) /\ admitting' = n
  <2> DEFINE u == Acquire(a, 2, n)
  <2>1. /\ Sound(u, 0) /\ Later(a, u) /\ SameButFiles(a, u) /\ u.openFiles = a.openFiles + 2
    BY <1>0, <1>14, <1>16, AcquireFacts
  <2> HIDE DEF u
  <2>2. Later(s, u)
    BY <1>1, <1>14, <2>1, LaterJoined
  <2>3. /\ u.openFiles = s.openFiles + 2 /\ u.entries = s.entries
        /\ u.assets = t.assets /\ u.playlists = t.playlists
    BY <1>1, <1>14, <2>1 DEF SameFiles, SameButFiles
  <2>4. Admittable(u, n) /\ ~KnownFile(u, inode)
    BY <1>1, <1>6, <1>7, <1>16, <2>3 DEF Admittable, HasEntry, KnownFile
  <2>5. Reads(s, u, n)
    BY <2>1, <2>2, <2>3, <2>4 DEF Reads
  <2>6. parse' # NoParse
    BY <1>16 DEF BeginParse, NoParse
  <2> QED
    BY <1>16, <2>5, <2>6 DEF Accepts, u
<1>17. CASE c.accepted /\ done(Warn(t, n))
  <2> DEFINE u == Warn(t, n)
  <2>1. /\ Sound(u, 0) /\ Later(t, u) /\ SameFiles(t, u)
        /\ u.progress = "clean" => Warns(u, n)
    BY <1>0, <1>1, WarnFacts
  <2>2. done(u)
    BY <1>17
  <2> HIDE DEF u
  <2>3. Later(s, u)
    BY <1>1, <2>1, LaterJoined
  <2>4. u.openFiles = s.openFiles /\ \A m : HasEntry(u, m) => HasEntry(s, m)
    BY <1>1, <2>1 DEF SameFiles, HasEntry
  <2>5. Decides(s, u, n)
    BY <2>1, <2>3, <2>4 DEF Decides
  <2> QED
    BY <2>2, <2>5 DEF Accepts
<1> QED
  BY <1>2, <1>4, <1>9, <1>10, <1>12, <1>13, <1>15, <1>16, <1>17

-----------------------------------------------------------------------------
(* The tree. *)

Parent(n) == Node[n].parent

(* A set of nodes that holds the directories above n. *)
Covers(S, n) ==
  /\ Parent(n) \in S \cup {Root}
  /\ \A m \in S : Parent(m) \in S \cup {Root}

LEMMA IsTree ==
  /\ Root \notin Nodes
  /\ \A n \in Nodes : Parent(n) \in Nodes \cup {Root}
  /\ \A n \in Nodes : Parent(n) = Root \/ Node[Parent(n)].kind = "directory"
  /\ \A S \in SUBSET Nodes : S # {} => \E n \in S : Parent(n) \notin S
BY ScanAssumption DEF Parent

(* There is a function that satisfies the definition of `Above'. *)
LEMMA AboveExists ==
  \E f : f = [n \in Nodes |-> IF Parent(n) = Root THEN {} ELSE {Parent(n)} \cup f[Parent(n)]]
<1> DEFINE A(n) == {m \in Nodes : \A S \in SUBSET Nodes : Covers(S, n) => m \in S}
           f == [n \in Nodes |-> A(n)]
<1>1. ASSUME NEW n \in Nodes
      PROVE  A(n) = IF Parent(n) = Root THEN {} ELSE {Parent(n)} \cup A(Parent(n))
  <2>1. CASE Parent(n) = Root
    <3>1. Covers({}, n)
      BY <2>1 DEF Covers
    <3> QED
      BY <2>1, <3>1
  <2>2. CASE Parent(n) # Root
    <3> DEFINE p == Parent(n)
    <3>0. p \in Nodes
      BY <2>2, IsTree
    <3>1. \A S \in SUBSET Nodes : Covers(S, n) => p \in S /\ Covers(S, p)
      BY <2>2 DEF Covers
    <3>2. \A S \in SUBSET Nodes : Covers(S, p) => Covers(S \cup {p}, n)
      BY <3>0 DEF Covers
    <3> HIDE DEF p
    <3>3. {p} \cup A(p) \subseteq A(n)
      BY <3>0, <3>1
    <3>4. ASSUME NEW m \in A(n), m # p PROVE m \in A(p)
      <4> SUFFICES ASSUME NEW S \in SUBSET Nodes, Covers(S, p) PROVE m \in S
        BY <3>4
      <4>1. S \cup {p} \in SUBSET Nodes /\ Covers(S \cup {p}, n)
        BY <3>0, <3>2
      <4>2. m \in S \cup {p}
        BY <3>4, <4>1
      <4> QED
        BY <3>4, <4>2
    <3>5. A(n) = {p} \cup A(p)
      BY <3>3, <3>4
    <3> QED
      BY <2>2, <3>5 DEF p
  <2> QED
    BY <2>1, <2>2
<1> HIDE DEF A
<1>2. \A n \in Nodes : f[n] = IF Parent(n) = Root THEN {} ELSE {Parent(n)} \cup f[Parent(n)]
  BY <1>1, IsTree
<1>3. f = [n \in Nodes |-> IF Parent(n) = Root THEN {} ELSE {Parent(n)} \cup f[Parent(n)]]
  BY <1>2
<1> QED
  BY <1>3

LEMMA AboveEquation ==
  ASSUME NEW n \in Nodes
  PROVE  Above[n] = IF Parent(n) = Root THEN {} ELSE {Parent(n)} \cup Above[Parent(n)]
<1> DEFINE Is(f) == f = [m \in Nodes |-> IF Node[m].parent = Root THEN {}
                                         ELSE {Node[m].parent} \cup f[Node[m].parent]]
<1>1. \E f : Is(f)
  BY AboveExists DEF Parent
<1>2. Above = CHOOSE f : Is(f)
  BY DEF Above
<1> HIDE DEF Is
<1>3. Is(Above)
  BY <1>1, <1>2
<1> QED
  BY <1>3 DEF Is, Parent

(* What holds of a node when it holds of the directory that it is in, holds of all. *)
LEMMA FromTheTop ==
  ASSUME NEW S \in SUBSET Nodes,
         \A n \in Nodes : Parent(n) = Root \/ Parent(n) \in S => n \in S
  PROVE  S = Nodes
<1> DEFINE R == Nodes \ S
<1>1. R # {} => \E n \in R : Parent(n) \notin R
  BY IsTree
<1>2. R = {}
  BY <1>1, IsTree
<1> QED
  BY <1>2

LEMMA AboveNodes == \A n \in Nodes : Above[n] \subseteq Nodes
<1> DEFINE S == {n \in Nodes : Above[n] \subseteq Nodes}
<1>1. \A n \in Nodes : Parent(n) = Root \/ Parent(n) \in S => n \in S
  BY AboveEquation, IsTree
<1> HIDE DEF S
<1>2. S \in SUBSET Nodes => S = Nodes
  BY <1>1, FromTheTop
<1> QED
  BY <1>2 DEF S

(* Between a node and a directory above it there is one that is in this directory. *)
LEMMA AboveChild ==
  \A n \in Nodes : \A m \in Above[n] : \E c \in Above[n] \cup {n} : Parent(c) = m
<1> DEFINE S == {n \in Nodes : \A m \in Above[n] : \E c \in Above[n] \cup {n} : Parent(c) = m}
<1>1. ASSUME NEW n \in Nodes, Parent(n) = Root \/ Parent(n) \in S PROVE n \in S
  <2>1. CASE Parent(n) = Root
    BY <2>1, AboveEquation
  <2>2. CASE Parent(n) # Root
    <3>1. Parent(n) \in S /\ Above[n] = {Parent(n)} \cup Above[Parent(n)]
      BY <1>1, <2>2, AboveEquation
    <3> QED
      BY <3>1
  <2> QED
    BY <2>1, <2>2
<1> HIDE DEF S
<1>2. S \in SUBSET Nodes => S = Nodes
  BY <1>1, FromTheTop
<1> QED
  BY <1>2 DEF S

(* The directories above a directory above a node are above the node. *)
LEMMA AboveAbove ==
  \A n \in Nodes : \A m \in Above[n] \cup {n} : Parent(m) # Root => Parent(m) \in Above[n]
<1> DEFINE S == {n \in Nodes :
                   \A m \in Above[n] \cup {n} : Parent(m) # Root => Parent(m) \in Above[n]}
<1>1. ASSUME NEW n \in Nodes, Parent(n) = Root \/ Parent(n) \in S PROVE n \in S
  <2>1. CASE Parent(n) = Root
    BY <2>1, AboveEquation
  <2>2. CASE Parent(n) # Root
    <3>1. Parent(n) \in S /\ Above[n] = {Parent(n)} \cup Above[Parent(n)]
      BY <1>1, <2>2, AboveEquation
    <3> QED
      BY <3>1
  <2> QED
    BY <2>1, <2>2
<1> HIDE DEF S
<1>2. S \in SUBSET Nodes => S = Nodes
  BY <1>1, FromTheTop
<1> QED
  BY <1>2 DEF S

(* Above every node, or at it, there is one right below `audio'. *)
LEMMA AboveTop ==
  \A n \in Nodes : \E m \in Above[n] \cup {n} : Parent(m) = Root
<1> DEFINE S == {n \in Nodes : \E m \in Above[n] \cup {n} : Parent(m) = Root}
<1>1. ASSUME NEW n \in Nodes, Parent(n) = Root \/ Parent(n) \in S PROVE n \in S
  <2>1. CASE Parent(n) = Root
    BY <2>1, AboveEquation
  <2>2. CASE Parent(n) # Root
    <3>1. Parent(n) \in S /\ Above[n] = {Parent(n)} \cup Above[Parent(n)]
      BY <1>1, <2>2, AboveEquation
    <3> QED
      BY <3>1
  <2> QED
    BY <2>1, <2>2
<1> HIDE DEF S
<1>2. S \in SUBSET Nodes => S = Nodes
  BY <1>1, FromTheTop
<1> QED
  BY <1>2 DEF S

LEMMA OnlyDirectoriesAbove ==
  \A n \in Nodes : \A m \in Above[n] : Node[m].kind = "directory"
<1> SUFFICES ASSUME NEW n \in Nodes, NEW m \in Above[n] PROVE Node[m].kind = "directory"
  OBVIOUS
<1>1. PICK c \in Above[n] \cup {n} : Parent(c) = m
  BY AboveChild
<1>2. c \in Nodes /\ m \in Nodes
  BY AboveNodes
<1> QED
  BY <1>1, <1>2, IsTree

-----------------------------------------------------------------------------
(* The walk. *)

Frames ==
  [dir : Places, stage : {"read", "inspect"}, unread : SUBSET Nodes, names : SUBSET Nodes]

Remaining(frame) == frame.unread \cup frame.names

(* What was met and is not inspected yet. *)
Pending == {n \in Nodes : \E i \in DOMAIN stack : n \in Remaining(stack[i])}

FramesOK(visited) ==
  /\ stack \in Seq(Frames)
  /\ \A i \in DOMAIN stack :
       /\ stack[i].dir \in visited \cup {Root}
       /\ Remaining(stack[i]) \subseteq Children(stack[i].dir)
       /\ stack[i].unread \cap stack[i].names = {}
  /\ \A i, j \in DOMAIN stack : stack[i].dir = stack[j].dir => i = j

(* All of a directory has been read before it is inspected, or the scan says so. *)
ReadThrough ==
  progress = "clean" =>
    \A i \in DOMAIN stack : stack[i].stage = "inspect" => stack[i].unread = {}

Met(n) == HasEntry(Scan, n) \/ n = admitting \/ n \in Pending

(* No node is met before its directory was entered, and none is met twice. *)
SeenOnce(visited) ==
  /\ visited \subseteq Nodes /\ visited \cap Pending = {}
  /\ \A n \in Nodes : Met(n) \/ n \in visited => Parent(n) \in visited \cup {Root}
  /\ \A n \in Pending : ~HasEntry(Scan, n) /\ n # admitting

Walk(visited) == FramesOK(visited) /\ SeenOnce(visited)

OpenFiles(depth, reading) == 1 + (IF depth = 0 THEN 0 ELSE 2 * depth - 1) + (IF reading THEN 3 ELSE 0)

IndexSound == Sound(Scan, 0)

ReadingOK ==
  /\ admitting \in Places
  /\ parse = NoParse <=> admitting = Root
  /\ admitting # Root =>
       /\ stack # <<>> /\ Node[admitting].audio
       /\ Admittable(Scan, admitting) /\ ~KnownFile(Scan, Node[admitting].inode)

(* A node that is wanted and was not met yet is below one that is pending, or said to
   be lost. *)
Covered(n) ==
  \/ HasEntry(Scan, n) \/ n = admitting \/ Warns(Scan, Root)
  \/ \E m \in Above[n] \cup {n} : m \in Pending \/ Warns(Scan, m)

NothingMissed ==
  phase # "down" /\ ~failed /\ progress = "clean" => \A n \in Nodes : Wanted(n) => Covered(n)

ScanInv ==
  /\ limits \in {l[1] : l \in Limits}
  /\ IndexSound /\ ReadingOK /\ ReadThrough
  /\ \E visited : Walk(visited)
  /\ ~failed => openFiles = OpenFiles(Len(stack), admitting # Root)
  /\ phase # "scan" => stack = <<>>
  /\ phase \in {"save", "up"} => ~failed
  /\ NothingMissed

LEMMA LimitsFacts == ScanInv => LimitsOK
BY ScanAssumption DEF ScanInv, LimitsOK

LEMMA ScanIsRecord ==
  /\ Scan.progress = progress /\ Scan.openFiles = openFiles /\ Scan.assets = assets
  /\ Scan.entries = entries /\ Scan.playlists = playlists /\ Scan.warnings = warnings
  /\ Scan.counters = counters /\ Scan.budget = budget
BY DEF Scan

(* The scan is what its handler made of it. *)
LEMMA Committed ==
  ASSUME NEW t \in Scans, Commit(t) PROVE Scan' = t
BY DEF Commit, Scan, Scans

LEMMA StillSound ==
  ASSUME NEW t, Sound(t, 0), Commit(t), limits' = limits PROVE IndexSound' /\ Scan' = t
<1>1. Scan' = t
  BY Committed DEF Sound
<1>2. \A l : OfList(t, l) = {k \in DOMAIN t.entries : Node[t.entries[k].node].list = l}
  BY DEF OfList, ListOf
<1> QED
  BY <1>1, <1>2 DEF IndexSound, Sound, Charged, Filed, Cost, OfList, ListOf

(* The innermost directory. *)
LEMMA TopFacts ==
  ASSUME stack \in Seq(Frames), stack # <<>>
  PROVE  /\ Len(stack) \in Nat \ {0} /\ Len(stack) \in DOMAIN stack /\ Top = stack[Len(stack)]
         /\ Top \in Frames
BY DEF Top, Last

LEMMA FrontFacts ==
  ASSUME stack \in Seq(Frames), stack # <<>>, NEW f \in Frames, NEW more \in Seq(Frames)
  PROVE  LET q == Front(stack) \o <<f>> \o more IN
         /\ q \in Seq(Frames) /\ Len(q) = Len(stack) + Len(more)
         /\ q[Len(stack)] = f
         /\ \A i \in DOMAIN stack : i # Len(stack) => q[i] = stack[i]
         /\ \A i \in 1 .. Len(more) : q[Len(stack) + i] = more[i]
<1> DEFINE n == Len(stack)
           p == Front(stack)
           r == p \o <<f>>
<1>1. n \in Nat \ {0} /\ DOMAIN stack = 1 .. n
  BY TopFacts
<1>2. p = [i \in 1 .. (n - 1) |-> stack[i]]
  BY <1>1 DEF Front
<1>3. p \in Seq(Frames) /\ Len(p) = n - 1 /\ \A i \in 1 .. (n - 1) : p[i] = stack[i]
  BY <1>1, <1>2
<1> HIDE DEF p, n
<1>4. /\ r \in Seq(Frames) /\ Len(r) = n /\ r[n] = f
      /\ \A i \in 1 .. (n - 1) : r[i] = stack[i]
  BY <1>1, <1>3
<1> HIDE DEF r
<1>5. /\ r \o more \in Seq(Frames) /\ Len(r \o more) = n + Len(more)
      /\ \A i \in 1 .. n : (r \o more)[i] = r[i]
      /\ \A i \in 1 .. Len(more) : (r \o more)[n + i] = more[i]
  BY <1>1, <1>4
<1>6. \A i \in 1 .. n : i # n => i \in 1 .. (n - 1)
  BY <1>1
<1> DEFINE x == r \o more
<1>7. /\ x \in Seq(Frames) /\ Len(x) = n + Len(more) /\ x[n] = f
      /\ \A i \in DOMAIN stack : i # n => x[i] = stack[i]
      /\ \A i \in 1 .. Len(more) : x[n + i] = more[i]
  BY <1>1, <1>4, <1>5, <1>6
<1> HIDE DEF x
<1> QED
  BY <1>7 DEF x, r, p, n

LEMMA SetTopFacts ==
  ASSUME stack \in Seq(Frames), stack # <<>>, NEW f \in Frames, SetTop(f)
  PROVE  /\ stack' \in Seq(Frames) /\ Len(stack') = Len(stack) /\ DOMAIN stack' = DOMAIN stack
         /\ stack'[Len(stack)] = f
         /\ \A i \in DOMAIN stack : i # Len(stack) => stack'[i] = stack[i]
<1>1. /\ <<>> \in Seq(Frames) /\ Len(<<>>) = 0
  OBVIOUS
<1> DEFINE q == Front(stack) \o <<f>>
<1>2. /\ q \o <<>> \in Seq(Frames) /\ Len(q \o <<>>) = Len(stack) + 0
      /\ (q \o <<>>)[Len(stack)] = f
      /\ \A i \in DOMAIN stack : i # Len(stack) => (q \o <<>>)[i] = stack[i]
  BY <1>1, FrontFacts
<1>3. q \in Seq(Frames)
  <2>1. Front(stack) \in Seq(Frames)
    BY TopFacts DEF Front
  <2> QED
    BY <2>1
<1>4. q \o <<>> = q
  BY <1>3
<1>5. stack' = q
  BY DEF SetTop
<1> HIDE DEF q
<1> QED
  BY <1>2, <1>4, <1>5

LEMMA ApartDirectories ==
  ASSUME NEW visited, FramesOK(visited), stack # <<>>, NEW i \in DOMAIN stack, i # Len(stack)
  PROVE  Remaining(stack[i]) \cap Remaining(Top) = {}
<1>1. Len(stack) \in DOMAIN stack /\ Top = stack[Len(stack)]
  BY TopFacts DEF FramesOK
<1> QED
  BY <1>1 DEF FramesOK, Children

LEMMA TopRemains ==
  ASSUME NEW visited, FramesOK(visited), stack # <<>>
  PROVE  /\ Top \in Frames /\ Top.dir \in visited \cup {Root} /\ Top.dir \in Places
         /\ Remaining(Top) \subseteq Pending /\ Remaining(Top) \subseteq Children(Top.dir)
         /\ Top.unread \cap Top.names = {} /\ Remaining(Top) \subseteq Nodes
         /\ \A n \in Remaining(Top) : Parent(n) = Top.dir
<1>1. Len(stack) \in DOMAIN stack /\ Top = stack[Len(stack)] /\ Top \in Frames
  BY TopFacts DEF FramesOK
<1>2. Remaining(Top) \subseteq Nodes /\ Top.dir \in Places
  BY <1>1 DEF Frames, Remaining
<1>3. /\ Top.dir \in visited \cup {Root} /\ Remaining(Top) \subseteq Children(Top.dir)
      /\ Top.unread \cap Top.names = {}
  BY <1>1 DEF FramesOK
<1>4. Remaining(Top) \subseteq Pending
  BY <1>1, <1>2 DEF Pending
<1>5. \A n \in Remaining(Top) : Parent(n) = Top.dir
  BY <1>3 DEF Children, Parent
<1> QED
  BY <1>1, <1>2, <1>3, <1>4, <1>5

(* Some names of the innermost directory are dealt with. *)
LEMMA TopNarrowed ==
  ASSUME NEW visited, FramesOK(visited), stack # <<>>, NEW f \in Frames, SetTop(f),
         f.dir = Top.dir, Remaining(f) \subseteq Remaining(Top), f.unread \cap f.names = {}
  PROVE  /\ FramesOK(visited)' /\ stack' # <<>> /\ Len(stack') = Len(stack)
         /\ Pending' = Pending \ (Remaining(Top) \ Remaining(f))
<1> DEFINE n == Len(stack)
<1>1. stack \in Seq(Frames) /\ n \in DOMAIN stack /\ Top = stack[n] /\ n \in Nat \ {0}
  BY TopFacts DEF FramesOK
<1>2. /\ stack' \in Seq(Frames) /\ Len(stack') = n /\ DOMAIN stack' = DOMAIN stack
      /\ stack'[n] = f /\ \A i \in DOMAIN stack : i # n => stack'[i] = stack[i]
  BY <1>1, SetTopFacts
<1> HIDE DEF n
<1>3. \A i \in DOMAIN stack : stack'[i].dir = stack[i].dir
  BY <1>1, <1>2
<1>4. \A i \in DOMAIN stack :
        Remaining(stack'[i]) \subseteq Children(stack'[i].dir)
        /\ stack'[i].unread \cap stack'[i].names = {}
  BY <1>1, <1>2, TopRemains DEF FramesOK
<1>5. FramesOK(visited)'
  BY <1>2, <1>3, <1>4 DEF FramesOK
<1>6. ASSUME NEW m \in Nodes
      PROVE  m \in Pending' <=> m \in Pending /\ m \notin (Remaining(Top) \ Remaining(f))
  <2>1. m \in Pending' <=> m \in Remaining(f)
                           \/ \E i \in DOMAIN stack : i # n /\ m \in Remaining(stack[i])
    BY <1>1, <1>2 DEF Pending
  <2>2. m \in Pending <=> m \in Remaining(Top)
                          \/ \E i \in DOMAIN stack : i # n /\ m \in Remaining(stack[i])
    BY <1>1 DEF Pending
  <2>3. \A i \in DOMAIN stack : i # n /\ m \in Remaining(stack[i]) => m \notin Remaining(Top)
    BY ApartDirectories DEF n
  <2> QED
    BY <2>1, <2>2, <2>3
<1>7. Pending' = Pending \ (Remaining(Top) \ Remaining(f))
  BY <1>6 DEF Pending
<1> QED
  BY <1>1, <1>2, <1>5, <1>7 DEF n

(* A directory is entered. *)
LEMMA Pushed ==
  ASSUME NEW visited, FramesOK(visited), stack # <<>>, NEW f \in Frames, NEW n \in Nodes,
         stack' = Front(stack) \o <<f>> \o <<Frame(n)>>, n \notin visited,
         f.dir = Top.dir, Remaining(f) \subseteq Remaining(Top), f.unread \cap f.names = {}
  PROVE  /\ FramesOK(visited \cup {n})' /\ stack' # <<>> /\ Len(stack') = Len(stack) + 1
         /\ Pending' = (Pending \ (Remaining(Top) \ Remaining(f))) \cup Children(n)
         /\ stack'[Len(stack)] = f /\ stack'[Len(stack) + 1].unread = Children(n)
         /\ stack'[Len(stack) + 1].stage = "read"
         /\ \A i \in DOMAIN stack : i # Len(stack) => stack'[i] = stack[i]
<1> DEFINE l == Len(stack)
           g == Frame(n)
           more == <<g>>
<1>1. stack \in Seq(Frames) /\ l \in DOMAIN stack /\ Top = stack[l] /\ l \in Nat \ {0}
      /\ DOMAIN stack = 1 .. l
  BY TopFacts DEF FramesOK
<1>2. /\ g \in Frames /\ g.dir = n /\ Remaining(g) = Children(n) /\ g.unread = Children(n)
      /\ g.stage = "read" /\ g.unread \cap g.names = {} /\ Children(n) \subseteq Nodes
  BY DEF Frame, Frames, Remaining, Children, Places
<1> HIDE DEF g
<1>3. more \in Seq(Frames) /\ Len(more) = 1 /\ more[1] = g
  BY <1>2
<1>4. /\ stack' \in Seq(Frames) /\ Len(stack') = l + Len(more) /\ stack'[l] = f
      /\ \A i \in DOMAIN stack : i # l => stack'[i] = stack[i]
      /\ \A i \in 1 .. Len(more) : stack'[l + i] = more[i]
  <2>1. stack' = Front(stack) \o <<f>> \o more
    BY DEF g
  <2> HIDE DEF more
  <2> QED
    BY <1>1, <1>3, <2>1, FrontFacts
<1> HIDE DEF more, l
<1>5. /\ DOMAIN stack' = DOMAIN stack \cup {l + 1} /\ l + 1 \notin DOMAIN stack
      /\ stack'[l + 1] = g /\ Len(stack') = l + 1
  BY <1>1, <1>3, <1>4
<1>6. \A i \in DOMAIN stack : stack'[i].dir = stack[i].dir
  BY <1>1, <1>4
<1>7. \A i \in DOMAIN stack' :
        /\ stack'[i].dir \in (visited \cup {n}) \cup {Root}
        /\ Remaining(stack'[i]) \subseteq Children(stack'[i].dir)
        /\ stack'[i].unread \cap stack'[i].names = {}
  <2> SUFFICES ASSUME NEW i \in DOMAIN stack'
               PROVE  /\ stack'[i].dir \in (visited \cup {n}) \cup {Root}
                      /\ Remaining(stack'[i]) \subseteq Children(stack'[i].dir)
                      /\ stack'[i].unread \cap stack'[i].names = {}
    OBVIOUS
  <2>1. CASE i = l + 1
    BY <1>2, <1>5, <2>1
  <2>2. CASE i = l
    BY <1>1, <1>4, <2>2, TopRemains
  <2>3. CASE i \in DOMAIN stack /\ i # l
    BY <1>4, <2>3 DEF FramesOK
  <2> QED
    BY <1>5, <2>1, <2>2, <2>3
<1>8. \A i, j \in DOMAIN stack' : stack'[i].dir = stack'[j].dir => i = j
  <2>1. \A i \in DOMAIN stack : stack[i].dir # n
    BY IsTree DEF FramesOK
  <2>2. \A i, j \in DOMAIN stack : stack[i].dir = stack[j].dir => i = j
    BY DEF FramesOK
  <2>3. stack'[l + 1].dir = n
    BY <1>2, <1>5
  <2>4. \A i \in DOMAIN stack' : i \in DOMAIN stack \/ i = l + 1
    BY <1>5
  <2> SUFFICES ASSUME NEW i \in DOMAIN stack', NEW j \in DOMAIN stack',
                      stack'[i].dir = stack'[j].dir
               PROVE  i = j
    OBVIOUS
  <2>5. CASE i \in DOMAIN stack /\ j \in DOMAIN stack
    BY <1>6, <2>2, <2>5
  <2>6. CASE i = l + 1 \/ j = l + 1
    BY <1>6, <2>1, <2>3, <2>4, <2>6
  <2> QED
    BY <2>4, <2>5, <2>6
<1>9. FramesOK(visited \cup {n})'
  <2>1. stack' \in Seq(Frames)
    BY <1>4
  <2> QED
    BY <1>7, <1>8, <2>1 DEF FramesOK
<1>10. ASSUME NEW m \in Nodes
       PROVE  m \in Pending' <=> \/ m \in Pending /\ m \notin (Remaining(Top) \ Remaining(f))
                                 \/ m \in Children(n)
  <2>1. m \in Pending' <=> m \in Remaining(f) \/ m \in Remaining(g)
                           \/ \E i \in DOMAIN stack : i # l /\ m \in Remaining(stack[i])
    BY <1>1, <1>4, <1>5 DEF Pending
  <2>2. m \in Pending <=> m \in Remaining(Top)
                          \/ \E i \in DOMAIN stack : i # l /\ m \in Remaining(stack[i])
    BY <1>1 DEF Pending
  <2>3. \A i \in DOMAIN stack : i # l /\ m \in Remaining(stack[i]) => m \notin Remaining(Top)
    BY ApartDirectories DEF l
  <2> QED
    BY <1>2, <2>1, <2>2, <2>3
<1>11. Pending' = (Pending \ (Remaining(Top) \ Remaining(f))) \cup Children(n)
  <2>1. Pending \subseteq Nodes /\ Pending' \subseteq Nodes
    BY DEF Pending
  <2> QED
    BY <1>2, <1>10, <2>1
<1>12. stack' # <<>>
  BY <1>1, <1>5
<1>13. stack'[l + 1].unread = Children(n) /\ stack'[l + 1].stage = "read"
  BY <1>2, <1>5
<1> QED
  BY <1>4, <1>5, <1>9, <1>11, <1>12, <1>13 DEF l

(* The innermost directory is left. *)
LEMMA Popped ==
  ASSUME NEW visited, FramesOK(visited), stack # <<>>, stack' = Front(stack)
  PROVE  /\ FramesOK(visited)' /\ Len(stack') = Len(stack) - 1
         /\ Pending' = Pending \ Remaining(Top)
         /\ DOMAIN stack' \subseteq DOMAIN stack
         /\ \A i \in DOMAIN stack' : stack'[i] = stack[i]
<1> DEFINE l == Len(stack)
<1>1. stack \in Seq(Frames) /\ l \in DOMAIN stack /\ Top = stack[l] /\ l \in Nat \ {0}
      /\ DOMAIN stack = 1 .. l
  BY TopFacts DEF FramesOK
<1> HIDE DEF l
<1>2. stack' = [i \in 1 .. (l - 1) |-> stack[i]]
  BY <1>1 DEF Front, l
<1>3. /\ stack' \in Seq(Frames) /\ Len(stack') = l - 1 /\ DOMAIN stack' = 1 .. (l - 1)
      /\ \A i \in 1 .. (l - 1) : stack'[i] = stack[i]
  BY <1>1, <1>2
<1>4. DOMAIN stack = DOMAIN stack' \cup {l} /\ l \notin DOMAIN stack'
  BY <1>1, <1>3
<1>5. FramesOK(visited)'
  BY <1>3, <1>4 DEF FramesOK
<1>6. ASSUME NEW m \in Nodes
      PROVE  m \in Pending' <=> m \in Pending /\ m \notin Remaining(Top)
  <2>1. m \in Pending' <=> \E i \in DOMAIN stack : i # l /\ m \in Remaining(stack[i])
    BY <1>3, <1>4 DEF Pending
  <2>2. m \in Pending <=> m \in Remaining(Top)
                          \/ \E i \in DOMAIN stack : i # l /\ m \in Remaining(stack[i])
    BY <1>1 DEF Pending
  <2>3. \A i \in DOMAIN stack : i # l /\ m \in Remaining(stack[i]) => m \notin Remaining(Top)
    BY ApartDirectories DEF l
  <2> QED
    BY <2>1, <2>2, <2>3
<1>7. Pending' = Pending \ Remaining(Top)
  BY <1>6 DEF Pending
<1> QED
  BY <1>3, <1>4, <1>5, <1>7 DEF l

-----------------------------------------------------------------------------
(* What the steps of the scan keep. *)

(* A node that was inspected is in the index or on its way into it, or it is said not
   to be, or nothing that is wanted is lost with it. *)
Dealt(t, n) ==
  \/ t.progress # "clean" \/ Warns(t, n) \/ Warns(t, Parent(n))
  \/ Node[n].kind # "directory" /\ (HasEntry(t, n) \/ n = admitting')
  \/ \A w \in Nodes : n \in Above[w] \cup {w} => ~Wanted(w)

LEMMA WantedKept ==
  ASSUME limits' = limits, NEW n PROVE Wanted(n)' <=> Wanted(n)
BY DEF Wanted, Hidden

LEMMA CoveredNext ==
  ASSUME NEW t, Scan' = t, NEW w
  PROVE  Covered(w)' <=> \/ HasEntry(t, w) \/ w = admitting' \/ Warns(t, Root)
                         \/ \E m \in Above[w] \cup {w} : m \in Pending' \/ Warns(t, m)
BY DEF Covered, HasEntry, Warns

LEMMA DealtCovers ==
  ASSUME NEW t, Scan' = t, NEW n, NEW w \in Nodes, n \in Above[w] \cup {w}, Wanted(w),
         Dealt(t, n), t.progress = "clean"
  PROVE  Covered(w)'
<1>1. n \in Nodes
  BY AboveNodes
<1>2. CASE Warns(t, n)
  BY <1>2, CoveredNext
<1>3. CASE Warns(t, Parent(n))
  <2>1. Parent(n) = Root \/ Parent(n) \in Above[w]
    BY AboveAbove
  <2> QED
    BY <1>3, <2>1, CoveredNext
<1>4. CASE Node[n].kind # "directory" /\ (HasEntry(t, n) \/ n = admitting')
  <2>1. n = w
    BY <1>4, OnlyDirectoriesAbove
  <2> QED
    BY <1>4, <2>1, CoveredNext
<1> QED
  BY <1>1, <1>2, <1>3, <1>4 DEF Dealt

LEMMA CoveredKept ==
  ASSUME NEW t, Scan' = t, Later(Scan, t), NEW w \in Nodes, Covered(w),
         w = admitting => HasEntry(t, w) \/ admitting' = w,
         \A m \in Above[w] \cup {w} : m \in Pending => m \in Pending' \/ Covered(w)'
  PROVE  Covered(w)'
<1>1. CASE HasEntry(Scan, w) \/ w = admitting \/ Warns(Scan, Root)
  BY <1>1, CoveredNext DEF Later
<1>2. ASSUME NEW m \in Above[w] \cup {w}, m \in Pending \/ Warns(Scan, m) PROVE Covered(w)'
  BY <1>2, CoveredNext DEF Later
<1> QED
  BY <1>1, <1>2 DEF Covered

(* While the scan goes on. *)
Goes ==
  phase = "scan" /\ phase' = "scan" /\ limits' = limits /\ failed' = failed

LEMMA MissedNext ==
  ASSUME ScanInv, Goes, NEW t, Commit(t), t \in Scans, Later(Scan, t),
         \A w \in Nodes : Wanted(w) /\ Covered(w) /\ t.progress = "clean" => Covered(w)'
  PROVE  NothingMissed'
<1>1. progress' = t.progress /\ (t.progress = "clean" => progress = "clean")
  BY DEF Commit, Later, Scan
<1>2. \A w \in Nodes : Wanted(w)' <=> Wanted(w)
  BY WantedKept DEF Goes
<1> QED
  BY <1>1, <1>2 DEF NothingMissed, ScanInv, Goes

(* The invariant, part by part. *)
LEMMA ScanGoes ==
  ASSUME ScanInv, Goes, NEW t, Sound(t, 0), Commit(t), ReadingOK', ReadThrough',
         NEW visited, Walk(visited)', NothingMissed',
         ~failed => t.openFiles = OpenFiles(Len(stack'), admitting' # Root)
  PROVE  ScanInv'
<1>1. IndexSound'
  BY StillSound DEF Goes
<1>2. openFiles' = t.openFiles
  BY DEF Commit
<1>3. limits' \in {l[1] : l \in Limits}
  BY DEF ScanInv, Goes
<1>4. \E v : Walk(v)'
  OBVIOUS
<1>5. ~failed' => openFiles' = OpenFiles(Len(stack'), admitting' # Root)
  BY <1>2 DEF Goes
<1> QED
  BY <1>1, <1>3, <1>4, <1>5 DEF ScanInv, Goes

LEMMA MetNext ==
  ASSUME NEW t, Scan' = t, NEW n
  PROVE  /\ Met(n)' <=> HasEntry(t, n) \/ n = admitting' \/ n \in Pending'
         /\ HasEntry(Scan, n)' <=> HasEntry(t, n)
BY DEF Met, HasEntry

(* Names of the innermost directory are dealt with. *)
LEMMA Narrows ==
  ASSUME ScanInv, Goes, Idle, stack # <<>>,
         NEW f \in Frames, SetTop(f), f.dir = Top.dir, Remaining(f) \subseteq Remaining(Top),
         f.unread \cap f.names = {},
         NEW t, Sound(t, 0), Later(Scan, t), Commit(t),
         t.progress = "clean" /\ f.stage = "inspect" => f.unread = {},
         \A m : HasEntry(t, m) => HasEntry(Scan, m) \/ m \in Remaining(Top) \ Remaining(f),
         \A m \in Remaining(Top) \ Remaining(f) : Dealt(t, m),
         \/ UNCHANGED <<admitting, parse>> /\ t.openFiles = openFiles
         \/ /\ admitting' \in Remaining(Top) \ Remaining(f) /\ parse' # NoParse
            /\ t.openFiles = openFiles + 3
            /\ Node[admitting'].audio /\ Admittable(t, admitting')
            /\ ~KnownFile(t, Node[admitting'].inode)
  PROVE  ScanInv'
<1> DEFINE gone == Remaining(Top) \ Remaining(f)
<1>1. PICK visited : Walk(visited)
  BY DEF ScanInv
<1>2. /\ FramesOK(visited)' /\ stack' # <<>> /\ Len(stack') = Len(stack)
      /\ Pending' = Pending \ gone
  BY <1>1, TopNarrowed DEF Walk
<1>3. /\ gone \subseteq Pending /\ Root \notin gone /\ gone \subseteq Nodes
      /\ stack \in Seq(Frames)
  BY <1>1, TopRemains, IsTree DEF Walk, FramesOK
<1> HIDE DEF gone
<1>4. IndexSound' /\ Scan' = t /\ t \in Scans
  BY StillSound DEF Goes, Sound
<1>5. /\ progress' = t.progress /\ openFiles' = t.openFiles
      /\ t.progress = "clean" => progress = "clean"
  BY DEF Commit, Later, Scan
<1>6. admitting = Root /\ parse = NoParse
  BY DEF ScanInv, ReadingOK, Idle
<1>7. /\ admitting' = Root /\ parse' = NoParse /\ t.openFiles = openFiles
      \/ /\ admitting' \in gone /\ parse' # NoParse /\ admitting' # Root
         /\ t.openFiles = openFiles + 3
         /\ Node[admitting'].audio /\ Admittable(t, admitting')
         /\ ~KnownFile(t, Node[admitting'].inode)
  BY <1>3, <1>6 DEF gone
<1>8. ReadingOK'
  <2>1. PICK a : a = admitting'
    OBVIOUS
  <2>2. a # Root => Node[a].audio /\ Admittable(t, a) /\ ~KnownFile(t, Node[a].inode)
    BY <1>7, <2>1
  <2>3. a # Root => Node[a].audio /\ Admittable(Scan, a)' /\ ~KnownFile(Scan, Node[a].inode)'
    BY <1>4, <2>2 DEF Admittable, KnownFile, HasEntry
  <2> QED
    BY <1>2, <1>3, <1>7, <2>1, <2>3 DEF ReadingOK, Places, Admittable, KnownFile, HasEntry
<1>9. ReadThrough'
  <2>1. /\ Len(stack) \in DOMAIN stack /\ DOMAIN stack' = DOMAIN stack /\ stack'[Len(stack)] = f
        /\ \A i \in DOMAIN stack : i # Len(stack) => stack'[i] = stack[i]
    BY <1>3, SetTopFacts, TopFacts
  <2> QED
    BY <1>5, <2>1 DEF ReadThrough, ScanInv
<1>10. SeenOnce(visited)'
  <2>1. \A n \in Nodes : Met(n)' => Met(n)
    <3> SUFFICES ASSUME NEW n \in Nodes, Met(n)' PROVE Met(n)
      OBVIOUS
    <3>1. HasEntry(t, n) \/ n = admitting' \/ n \in Pending'
      BY <1>4, MetNext
    <3>2. HasEntry(t, n) => HasEntry(Scan, n) \/ n \in gone
      BY DEF gone
    <3>3. n # Root
      BY IsTree
    <3> QED
      BY <1>2, <1>3, <1>7, <3>1, <3>2, <3>3 DEF Met
  <2>2. \A n \in Pending' : ~HasEntry(Scan, n)' /\ n # admitting'
    <3> SUFFICES ASSUME NEW n \in Pending' PROVE ~HasEntry(t, n) /\ n # admitting'
      BY <1>4, MetNext
    <3>1. n \in Pending /\ n \notin gone /\ ~HasEntry(Scan, n) /\ n \in Nodes
      BY <1>1, <1>2 DEF Walk, SeenOnce, Pending
    <3>2. n # Root
      BY <3>1, IsTree
    <3> QED
      BY <1>7, <3>1, <3>2 DEF gone
  <2>3. \A n \in Nodes : Met(n)' \/ n \in visited => Parent(n) \in visited \cup {Root}
    BY <1>1, <2>1 DEF Walk, SeenOnce
  <2>4. visited \subseteq Nodes /\ visited \cap Pending' = {}
    BY <1>1, <1>2 DEF Walk, SeenOnce
  <2> QED
    BY <2>2, <2>3, <2>4 DEF SeenOnce
<1>11. NothingMissed'
  <2> SUFFICES ASSUME NEW w \in Nodes, Wanted(w), Covered(w), t.progress = "clean"
               PROVE  Covered(w)'
    BY <1>4, MissedNext
  <2>1. \A m \in Above[w] \cup {w} : m \in Pending => m \in Pending' \/ Covered(w)'
    <3> SUFFICES ASSUME NEW m \in Above[w] \cup {w}, m \in gone PROVE Covered(w)'
      BY <1>2
    <3>1. Dealt(t, m)
      BY DEF gone
    <3> QED
      BY <1>4, <3>1, DealtCovers
  <2>2. w # admitting
    BY <1>6, IsTree
  <2> QED
    BY <1>4, <2>1, <2>2, CoveredKept
<1>12. ~failed => t.openFiles = OpenFiles(Len(stack'), admitting' # Root)
  <2>1. Len(stack) \in Nat \ {0}
    BY <1>3, TopFacts
  <2>2. ~failed => openFiles = OpenFiles(Len(stack), FALSE)
    BY <1>6 DEF ScanInv
  <2> QED
    BY <1>2, <1>7, <2>1, <2>2 DEF OpenFiles
<1>13. Walk(visited)'
  BY <1>2, <1>10 DEF Walk
<1> QED
  BY <1>8, <1>9, <1>11, <1>12, <1>13, ScanGoes

LEMMA FrameUnread ==
  ASSUME NEW f \in Frames, NEW u \in SUBSET Nodes
  PROVE  LET g == [f EXCEPT !.unread = u] IN
         /\ g \in Frames /\ g.dir = f.dir /\ g.stage = f.stage /\ g.unread = u
         /\ g.names = f.names
BY DEF Frames

LEMMA FrameNames ==
  ASSUME NEW f \in Frames, NEW v \in SUBSET Nodes
  PROVE  LET g == [f EXCEPT !.names = v] IN
         /\ g \in Frames /\ g.dir = f.dir /\ g.stage = f.stage /\ g.unread = f.unread
         /\ g.names = v
BY DEF Frames

LEMMA FrameStage ==
  ASSUME NEW f \in Frames
  PROVE  LET g == [f EXCEPT !.stage = "inspect"] IN
         g \in Frames /\ g.dir = f.dir /\ g.unread = f.unread /\ g.names = f.names
BY DEF Frames

(* Between two names. *)
LEMMA IdleFacts ==
  ASSUME ScanInv, Idle, stack # <<>>
  PROVE  /\ LimitsOK /\ Sound(Scan, 0) /\ Later(Scan, Scan) /\ parse = NoParse /\ admitting = Root
         /\ Top \in Frames /\ Top.unread \cap Top.names = {} /\ Top.dir \in Places
         /\ Top.unread \subseteq Nodes /\ Top.names \subseteq Nodes
         /\ \A n \in Remaining(Top) : Parent(n) = Top.dir /\ ~HasEntry(Scan, n)
         /\ progress = "clean" /\ Top.stage = "inspect" => Top.unread = {}
         /\ Scan.openFiles = openFiles /\ Scan.progress = progress
<1>1. PICK visited : Walk(visited)
  BY DEF ScanInv
<1>2. /\ Top \in Frames /\ Top.unread \cap Top.names = {} /\ Top.dir \in Places
      /\ Remaining(Top) \subseteq Pending /\ Remaining(Top) \subseteq Nodes
      /\ \A n \in Remaining(Top) : Parent(n) = Top.dir
  BY <1>1, TopRemains DEF Walk
<1>3. \A n \in Remaining(Top) : ~HasEntry(Scan, n)
  BY <1>1, <1>2 DEF Walk, SeenOnce
<1>4. Len(stack) \in DOMAIN stack /\ Top = stack[Len(stack)]
  BY <1>1, TopFacts DEF Walk, FramesOK
<1>5. progress = "clean" /\ Top.stage = "inspect" => Top.unread = {}
  BY <1>4 DEF ScanInv, ReadThrough
<1>6. Later(Scan, Scan) /\ Sound(Scan, 0) /\ parse = NoParse /\ admitting = Root
  BY DEF Later, ScanInv, IndexSound, ReadingOK, Idle
<1>7. Top.unread \subseteq Nodes /\ Top.names \subseteq Nodes
  BY <1>2 DEF Remaining
<1> QED
  BY <1>2, <1>3, <1>5, <1>6, <1>7, LimitsFacts, ScanIsRecord

LEMMA ReadNameKeeps ==
  ASSUME ScanInv, Goes, ReadName PROVE ScanInv'
<1>1. Idle /\ stack # <<>> /\ UNCHANGED <<admitting, parse>> /\ Top.stage = "read"
  BY DEF ReadName, KeepCache, cacheVars
<1>2. PICK n \in Top.unread :
        \/ LET met == Encounter(Scan, n) IN
           /\ Commit(met.scan)
           /\ SetTop([Top EXCEPT !.unread = @ \ {n},
                                 !.names = IF met.admitted THEN @ \cup {n} ELSE @])
        \/ /\ Commit(Warn(Scan, Top.dir))
           /\ SetTop([Top EXCEPT !.unread = @ \ {n}])
  BY DEF ReadName
<1>3. /\ LimitsOK /\ Sound(Scan, 0) /\ Top \in Frames /\ n \in Nodes /\ Top.dir \in Places
      /\ Top.unread \cap Top.names = {} /\ Top.unread \subseteq Nodes /\ Top.names \subseteq Nodes
      /\ Parent(n) = Top.dir /\ Scan.openFiles = openFiles
  BY <1>1, IdleFacts DEF Remaining
<1> DEFINE less == Top.unread \ {n}
<1>4. less \in SUBSET Nodes
  BY <1>3
<1>5. CASE /\ Commit(Encounter(Scan, n).scan)
           /\ SetTop([Top EXCEPT !.unread = less,
                        !.names = IF Encounter(Scan, n).admitted THEN Top.names \cup {n}
                                                                  ELSE Top.names])
  <2> DEFINE e == Encounter(Scan, n)
             t == e.scan
             names == IF e.admitted THEN Top.names \cup {n} ELSE Top.names
             f == [Top EXCEPT !.unread = less, !.names = names]
  <2>1. /\ Sound(t, 0) /\ Later(Scan, t) /\ SameFiles(Scan, t)
        /\ ~e.admitted => t.progress # "clean"
    BY <1>3, EncounterFacts
  <2>2. Commit(t) /\ SetTop(f)
    BY <1>5
  <2>3. names \in SUBSET Nodes /\ less \cap names = {}
        /\ (less \cup names) \subseteq (Top.unread \cup Top.names)
        /\ (Top.unread \cup Top.names) \ (less \cup names) \subseteq {n}
        /\ (e.admitted => (Top.unread \cup Top.names) \ (less \cup names) = {})
    BY <1>3
  <2> HIDE DEF t, e, names, less
  <2>4. /\ f \in Frames /\ f.dir = Top.dir /\ f.stage = Top.stage
        /\ f.unread = less /\ f.names = names
    <3>1. f = [Top EXCEPT !.unread = less, !.names = names]
      OBVIOUS
    <3> HIDE DEF f, less
    <3> QED
      BY <1>3, <1>4, <2>3, <3>1 DEF Frames
  <2> HIDE DEF f
  <2>5. /\ Remaining(f) \subseteq Remaining(Top) /\ f.unread \cap f.names = {}
        /\ \A m \in Remaining(Top) \ Remaining(f) : Dealt(t, m)
    BY <2>1, <2>3, <2>4 DEF Remaining, Dealt
  <2>6. \A m : HasEntry(t, m) => HasEntry(Scan, m)
    BY <2>1 DEF SameFiles, HasEntry
  <2>7. t.openFiles = openFiles
    BY <1>3, <2>1 DEF SameFiles
  <2> QED
    BY <1>1, <2>1, <2>2, <2>4, <2>5, <2>6, <2>7, Narrows
<1>6. CASE Commit(Warn(Scan, Top.dir)) /\ SetTop([Top EXCEPT !.unread = less])
  <2> DEFINE t == Warn(Scan, Top.dir)
             f == [Top EXCEPT !.unread = less]
  <2>1. /\ Sound(t, 0) /\ Later(Scan, t) /\ SameFiles(Scan, t)
        /\ t.progress = "clean" => Warns(t, Top.dir)
    BY <1>3, WarnFacts
  <2>2. Commit(t) /\ SetTop(f)
    BY <1>6
  <2> HIDE DEF t
  <2>3. f \in Frames /\ f.dir = Top.dir /\ f.stage = Top.stage /\ f.unread = less
        /\ f.names = Top.names
    <3> HIDE DEF less
    <3> QED
      BY <1>3, <1>4, FrameUnread
  <2> HIDE DEF f
  <2>4. /\ Remaining(f) \subseteq Remaining(Top) /\ f.unread \cap f.names = {}
        /\ Remaining(Top) \ Remaining(f) \subseteq {n}
    BY <1>3, <2>3 DEF Remaining
  <2>5. \A m \in Remaining(Top) \ Remaining(f) : Dealt(t, m)
    BY <1>3, <2>1, <2>4 DEF Dealt
  <2>6. \A m : HasEntry(t, m) => HasEntry(Scan, m)
    BY <2>1 DEF SameFiles, HasEntry
  <2>7. t.openFiles = openFiles
    BY <1>3, <2>1 DEF SameFiles
  <2> QED
    BY <1>1, <2>1, <2>2, <2>3, <2>4, <2>5, <2>6, <2>7, Narrows
<1> QED
  BY <1>2, <1>5, <1>6

LEMMA EndOfNamesKeeps ==
  ASSUME ScanInv, Goes, EndOfNames PROVE ScanInv'
<1> DEFINE f == [Top EXCEPT !.stage = "inspect"]
<1>1. /\ Idle /\ stack # <<>> /\ UNCHANGED <<admitting, parse>> /\ Commit(Scan) /\ SetTop(f)
      /\ Top.unread = {} \/ ~CanEnumerate(Scan)
  BY DEF EndOfNames, KeepCache, cacheVars
<1>2. /\ Sound(Scan, 0) /\ Later(Scan, Scan) /\ Top \in Frames /\ Top.unread \cap Top.names = {}
      /\ Scan.openFiles = openFiles
  BY <1>1, IdleFacts
<1>3. f \in Frames /\ f.dir = Top.dir /\ f.unread = Top.unread /\ f.names = Top.names
  BY <1>2, FrameStage
<1> HIDE DEF f
<1>4. Remaining(f) = Remaining(Top)
  BY <1>3 DEF Remaining
<1>5. Scan.progress = "clean" => f.unread = {}
  BY <1>1, <1>3 DEF CanEnumerate
<1> QED
  BY <1>1, <1>2, <1>3, <1>4, <1>5, Narrows

(* A name was inspected. *)
LEMMA InspectedKeeps ==
  ASSUME ScanInv, Goes, NEW n \in Nodes, Inspects(n), Inspected(n),
         NEW t, Sound(t, 0), Later(Scan, t), Commit(t), Dealt(t, n),
         \A m : HasEntry(t, m) => HasEntry(Scan, m) \/ m = n,
         \/ UNCHANGED <<admitting, parse>> /\ t.openFiles = openFiles
         \/ /\ admitting' = n /\ parse' # NoParse /\ t.openFiles = openFiles + 3
            /\ Node[n].audio /\ Admittable(t, n) /\ ~KnownFile(t, Node[n].inode)
  PROVE  ScanInv'
<1> DEFINE f == [Top EXCEPT !.names = Top.names \ {n}]
<1>1. Idle /\ stack # <<>> /\ SetTop(f) /\ n \in Top.names /\ Top.stage = "inspect"
  BY DEF Inspects, Inspected
<1>2. /\ Top \in Frames /\ Top.unread \cap Top.names = {}
      /\ Top.unread \subseteq Nodes /\ Top.names \subseteq Nodes
      /\ (progress = "clean" => Top.unread = {}) /\ Scan.progress = progress
  BY <1>1, IdleFacts
<1>3. /\ f \in Frames /\ f.dir = Top.dir /\ f.unread = Top.unread /\ f.names = Top.names \ {n}
  <2>1. Top.names \ {n} \in SUBSET Nodes
    BY <1>2
  <2> QED
    BY <1>2, <2>1, FrameNames
<1> HIDE DEF f
<1>4. Remaining(f) \subseteq Remaining(Top) /\ Remaining(Top) \ Remaining(f) = {n}
      /\ f.unread \cap f.names = {}
  BY <1>1, <1>2, <1>3 DEF Remaining
<1>5. t.progress = "clean" => f.unread = {}
  BY <1>2, <1>3 DEF Later
<1>6. \A m \in Remaining(Top) \ Remaining(f) : Dealt(t, m)
  BY <1>4
<1> QED
  BY <1>1, <1>3, <1>4, <1>5, <1>6, Narrows

(* ... and nothing was admitted. *)
LEMMA SkippedKeeps ==
  ASSUME ScanInv, Goes, NEW n \in Nodes, Inspects(n), Inspected(n), UNCHANGED <<admitting, parse>>,
         NEW t, Sound(t, 0), Later(Scan, t), SameFiles(Scan, t), Commit(t), Dealt(t, n)
  PROVE  ScanInv'
<1>1. \A m : HasEntry(t, m) => HasEntry(Scan, m)
  BY DEF SameFiles, HasEntry
<1>2. t.openFiles = openFiles
  BY ScanIsRecord DEF SameFiles
<1> QED
  BY <1>1, <1>2, InspectedKeeps

(* ... or the file was opened. *)
LEMMA OpenedKeeps ==
  ASSUME ScanInv, Goes, CachedOK, NEW n \in Nodes, Inspects(n), Inspected(n),
         Node[n].kind # "directory", Node[n].audio,
         NEW s, Sound(s, 0), Later(Scan, s), s.entries = entries, s.openFiles = openFiles + 1,
         NEW regular, AcceptMedia(s, n, regular)
  PROVE  ScanInv'
<1>1. LimitsOK /\ ~HasEntry(Scan, n) /\ admitting = Root
  BY IdleFacts DEF Inspects, Remaining
<1>2. ~HasEntry(s, n) /\ openFiles \in Int /\ \A m : HasEntry(s, m) <=> HasEntry(Scan, m)
  BY <1>1, ScanIsRecord, ScanFields DEF HasEntry, ScanInv, IndexSound, Sound
<1>3. PICK t : \/ Decides(s, t, n) /\ Commit(Release(t, 1)) /\ UNCHANGED <<admitting, parse>>
               \/ Reads(s, t, n) /\ Commit(t) /\ admitting' = n /\ parse' # NoParse
  BY <1>1, <1>2, AcceptFacts DEF Accepts
<1>4. CASE Decides(s, t, n) /\ Commit(Release(t, 1)) /\ UNCHANGED <<admitting, parse>>
  <2> DEFINE u == Release(t, 1)
  <2>1. /\ Sound(u, 0) /\ Later(t, u) /\ SameButFiles(t, u)
        /\ u.openFiles = t.openFiles - 1 /\ u.progress = t.progress
    BY <1>4, ReleaseFacts DEF Decides
  <2>2. Commit(u)
    BY <1>4
  <2> HIDE DEF u
  <2>3. Later(s, t)
    BY <1>4 DEF Decides
  <2>4. Later(Scan, u)
    BY <2>1, <2>3, LaterJoined
  <2>5. u.openFiles = openFiles
    BY <1>2, <1>4, <2>1 DEF Decides
  <2>6. \A m : HasEntry(u, m) <=> HasEntry(t, m)
    BY <2>1 DEF SameButFiles, HasEntry
  <2>7. \A m : HasEntry(u, m) => HasEntry(Scan, m) \/ m = n
    BY <1>2, <1>4, <2>6 DEF Decides
  <2>8. HasEntry(u, n) \/ Warns(u, n) \/ u.progress # "clean"
    BY <1>4, <2>1, <2>6 DEF Decides, Later
  <2>9. Dealt(u, n)
    BY <2>8 DEF Dealt
  <2> QED
    BY <1>4, <2>1, <2>2, <2>4, <2>5, <2>7, <2>9, InspectedKeeps
<1>5. CASE Reads(s, t, n) /\ Commit(t) /\ admitting' = n /\ parse' # NoParse
  <2>1. Sound(t, 0) /\ Later(s, t) /\ Admittable(t, n) /\ ~KnownFile(t, Node[n].inode)
    BY <1>5 DEF Reads
  <2>2. Later(Scan, t)
    BY <2>1, LaterJoined
  <2>3. t.openFiles = openFiles + 3
    BY <1>2, <1>5 DEF Reads
  <2>4. Dealt(t, n) /\ \A m : HasEntry(t, m) => HasEntry(Scan, m) \/ m = n
    BY <1>2, <1>5 DEF Reads, Dealt, HasEntry
  <2> QED
    BY <1>5, <2>1, <2>2, <2>3, <2>4, InspectedKeeps
<1> QED
  BY <1>3, <1>4, <1>5

LEMMA NotWanted ==
  ASSUME NEW n \in Nodes,
         \/ Hidden(n) \/ ~Node[n].media
         \/ /\ Node[n].kind # "directory"
            /\ ~Node[n].audio \/ (Node[n].kind = "symlink" /\ Node[n].target # "file")
  PROVE  \A w \in Nodes : n \in Above[w] \cup {w} => ~Wanted(w)
<1> SUFFICES ASSUME NEW w \in Nodes, n \in Above[w] \cup {w}, Wanted(w) PROVE FALSE
  OBVIOUS
<1>1. ~Hidden(n) /\ Node[n].media
  BY DEF Wanted
<1>2. Node[n].kind # "directory" => n = w
  BY OnlyDirectoriesAbove
<1> QED
  BY <1>1, <1>2 DEF Wanted

(* A warning or a limit says enough. *)
LEMMA SaidFacts ==
  ASSUME LimitsOK, NEW s, Sound(s, 0), Later(Scan, s), SameFiles(Scan, s), NEW n \in Nodes
  PROVE  \A t \in {Warn(s, n), Limit(s, n)} :
           Sound(t, 0) /\ Later(Scan, t) /\ SameFiles(Scan, t) /\ Dealt(t, n)
<1>1. /\ Sound(Warn(s, n), 0) /\ Later(s, Warn(s, n)) /\ SameFiles(s, Warn(s, n))
      /\ Warn(s, n).progress = "clean" => Warns(Warn(s, n), n)
  BY InPlaces, WarnFacts
<1>2. /\ Sound(Limit(s, n), 0) /\ Later(s, Limit(s, n)) /\ SameFiles(s, Limit(s, n))
      /\ Limit(s, n).progress = "stopped"
  BY InPlaces, LimitFacts
<1>3. /\ Later(Scan, Warn(s, n)) /\ SameFiles(Scan, Warn(s, n))
      /\ Later(Scan, Limit(s, n)) /\ SameFiles(Scan, Limit(s, n))
  BY <1>1, <1>2, LaterJoined, SameJoined
<1>4. Dealt(Warn(s, n), n)
  BY <1>1 DEF Dealt
<1>5. Dealt(Limit(s, n), n)
  BY <1>2 DEF Dealt
<1> QED
  BY <1>1, <1>2, <1>3, <1>4, <1>5

LEMMA InspectsFacts ==
  ASSUME ScanInv, NEW n \in Nodes, Inspects(n)
  PROVE  /\ Idle /\ stack # <<>> /\ n \in Top.names /\ Top.stage = "inspect"
         /\ LimitsOK /\ Sound(Scan, 0) /\ Later(Scan, Scan) /\ SameFiles(Scan, Scan)
         /\ Scan.openFiles = openFiles /\ Scan.entries = entries
BY IdleFacts, ScanIsRecord DEF Inspects, SameFiles

LEMMA EntryFailsKeeps ==
  ASSUME ScanInv, Goes, NEW n \in Nodes, EntryFails(n) PROVE ScanInv'
<1>1. Inspects(n) /\ Inspected(n) /\ UNCHANGED <<admitting, parse>> /\ Commit(Warn(Scan, n))
  BY DEF EntryFails, KeepCache, cacheVars
<1>2. LimitsOK /\ Sound(Scan, 0) /\ Later(Scan, Scan) /\ SameFiles(Scan, Scan)
  BY <1>1, InspectsFacts
<1>3. \A t \in {Warn(Scan, n), Limit(Scan, n)} :
        Sound(t, 0) /\ Later(Scan, t) /\ SameFiles(Scan, t) /\ Dealt(t, n)
  BY <1>2, SaidFacts
<1> QED
  BY <1>1, <1>3, SkippedKeeps

LEMMA RegularEntryKeeps ==
  ASSUME ScanInv, Goes, CachedOK, NEW n \in Nodes, RegularEntry(n) PROVE ScanInv'
<1>1. Inspects(n) /\ Inspected(n) /\ Node[n].kind = "file"
  BY DEF RegularEntry
<1>2. /\ LimitsOK /\ Sound(Scan, 0) /\ Later(Scan, Scan) /\ SameFiles(Scan, Scan)
      /\ Scan.openFiles = openFiles /\ Scan.entries = entries
  BY <1>1, InspectsFacts
<1>3. \A t \in {Warn(Scan, n), Limit(Scan, n)} :
        Sound(t, 0) /\ Later(Scan, t) /\ SameFiles(Scan, t) /\ Dealt(t, n)
  BY <1>2, SaidFacts
<1>4. ASSUME NEW t, Sound(t, 0), Later(Scan, t), SameFiles(Scan, t), Dealt(t, n),
             Commit(t) /\ UNCHANGED <<admitting, cached, parse>>
      PROVE  ScanInv'
  BY <1>1, <1>4, SkippedKeeps
<1>5. CASE Node[n].audio /\ Hidden(n)
  <2>1. Commit(Scan) /\ UNCHANGED <<admitting, cached, parse>>
    BY <1>5 DEF RegularEntry, Skips
  <2>2. Dealt(Scan, n)
    BY <1>5, NotWanted DEF Dealt
  <2> QED
    BY <1>2, <1>4, <2>1, <2>2
<1>6. CASE Skips(Limit(Scan, n)) \/ Skips(Warn(Scan, n))
  BY <1>3, <1>4, <1>6 DEF Skips
<1>7. ASSUME NEW regular, Node[n].audio, Acquired(Scan, 1),
             AcceptMedia(Acquire(Scan, 1, n), n, regular)
      PROVE  ScanInv'
  <2> DEFINE s == Acquire(Scan, 1, n)
  <2>1. AcceptMedia(s, n, regular)
    BY <1>7
  <2>2. Sound(s, 0) /\ Later(Scan, s) /\ SameButFiles(Scan, s) /\ s.openFiles = Scan.openFiles + 1
    BY <1>2, <1>7, InPlaces, AcquireFacts
  <2> HIDE DEF s
  <2> QED
    BY <1>1, <1>2, <1>7, <2>1, <2>2, OpenedKeeps DEF SameButFiles
<1>8. CASE ~Node[n].audio
  <2>1. Dealt(Scan, n)
    BY <1>1, <1>8, NotWanted DEF Dealt
  <2>2. \E t \in {Warn(Scan, n), Scan} : Commit(t) /\ UNCHANGED <<admitting, cached, parse>>
    BY <1>8 DEF RegularEntry, Skips
  <2> QED
    BY <1>2, <1>3, <1>4, <2>1, <2>2
<1>9. CASE Node[n].audio /\ ~Hidden(n)
  <2>1. OpenMedia(Scan, n)
    BY <1>9 DEF RegularEntry
  <2> QED
    BY <1>6, <1>7, <1>9, <2>1 DEF OpenMedia
<1> QED
  BY <1>5, <1>8, <1>9

LEMMA SymlinkEntryKeeps ==
  ASSUME ScanInv, Goes, CachedOK, NEW n \in Nodes, SymlinkEntry(n) PROVE ScanInv'
<1> DEFINE r == [Scan EXCEPT !.counters.symlinks = @ + 1]
<1>1. Inspects(n) /\ Inspected(n) /\ Node[n].kind = "symlink"
  BY DEF SymlinkEntry
<1>2. /\ LimitsOK /\ Sound(Scan, 0) /\ Later(Scan, Scan) /\ SameFiles(Scan, Scan)
      /\ Scan.openFiles = openFiles /\ Scan.entries = entries
  BY <1>1, InspectsFacts
<1>3. Sound(r, 0) /\ Later(Scan, r) /\ SameFiles(Scan, r)
  BY <1>2, CountedOne
<1>4. \/ Hidden(n) /\ Skips(Scan)
      \/ Skips(Limit(Scan, n)) \/ Skips(Warn(r, n)) \/ Skips(Limit(r, n))
      \/ ~Node[n].audio /\ Skips(r)
      \/ Node[n].audio /\ Acquired(r, 1) /\ AcceptMedia(Acquire(r, 1, n), n, TRUE)
  BY DEF SymlinkEntry
<1> HIDE DEF r
<1>5. \A t \in {Limit(Scan, n), Warn(r, n), Limit(r, n)} :
        Sound(t, 0) /\ Later(Scan, t) /\ SameFiles(Scan, t) /\ Dealt(t, n)
  BY <1>2, <1>3, SaidFacts
<1>6. ASSUME NEW t, Sound(t, 0), Later(Scan, t), SameFiles(Scan, t), Dealt(t, n), Skips(t)
      PROVE  ScanInv'
  BY <1>1, <1>6, SkippedKeeps DEF Skips
<1>7. CASE Hidden(n) /\ Skips(Scan)
  <2>1. Dealt(Scan, n)
    BY <1>7, NotWanted DEF Dealt
  <2> QED
    BY <1>2, <1>6, <1>7, <2>1
<1>8. CASE Skips(Limit(Scan, n)) \/ Skips(Warn(r, n)) \/ Skips(Limit(r, n))
  BY <1>5, <1>6, <1>8
<1>9. CASE ~Node[n].audio /\ Skips(r)
  <2>1. Dealt(r, n)
    BY <1>1, <1>9, NotWanted DEF Dealt
  <2> QED
    BY <1>3, <1>6, <1>9, <2>1
<1>10. CASE Node[n].audio /\ Acquired(r, 1) /\ AcceptMedia(Acquire(r, 1, n), n, TRUE)
  <2> DEFINE s == Acquire(r, 1, n)
  <2>1. AcceptMedia(s, n, TRUE)
    BY <1>10
  <2>2. Sound(s, 0) /\ Later(r, s) /\ SameButFiles(r, s) /\ s.openFiles = r.openFiles + 1
    BY <1>2, <1>3, <1>10, InPlaces, AcquireFacts
  <2> HIDE DEF s
  <2>3. Later(Scan, s) /\ s.entries = entries /\ s.openFiles = openFiles + 1
    BY <1>2, <1>3, <2>2, LaterJoined DEF SameButFiles, SameFiles
  <2> QED
    BY <1>1, <1>10, <2>1, <2>2, <2>3, OpenedKeeps
<1> QED
  BY <1>4, <1>7, <1>8, <1>9, <1>10

LEMMA EnterDirectoryKeeps ==
  ASSUME ScanInv, Goes, NEW n \in Nodes, EnterDirectory(n) PROVE ScanInv'
<1> DEFINE f == [Top EXCEPT !.names = Top.names \ {n}]
<1>1. Inspects(n) /\ Node[n].kind = "directory" /\ UNCHANGED <<admitting, parse>>
  BY DEF EnterDirectory, KeepCache, cacheVars
<1>2. /\ Idle /\ stack # <<>> /\ n \in Top.names /\ Top.stage = "inspect"
      /\ LimitsOK /\ Sound(Scan, 0) /\ Scan.openFiles = openFiles /\ Scan.entries = entries
  BY <1>1, InspectsFacts
<1>3. PICK opens :
        /\ Commit(Entered(Scan, n, opens).scan)
        /\ stack' = Front(stack) \o <<f>>
                      \o (IF Entered(Scan, n, opens).walk THEN <<Frame(n)>> ELSE <<>>)
  BY DEF EnterDirectory
<1> DEFINE e == Entered(Scan, n, opens)
           t == e.scan
<1>4. /\ Sound(t, 0) /\ Later(Scan, t) /\ t.entries = entries
      /\ e.walk \in BOOLEAN
      /\ t.openFiles = IF e.walk THEN openFiles + 2 ELSE openFiles
      /\ ~e.walk /\ t.progress = "clean" => Hidden(n) \/ ~Node[n].media \/ Warns(t, n)
  BY <1>2, EnteredFacts
<1>5. Commit(t) /\ stack' = Front(stack) \o <<f>> \o (IF e.walk THEN <<Frame(n)>> ELSE <<>>)
  BY <1>3
<1> HIDE DEF e, t
<1>6. /\ Top \in Frames /\ Top.unread \cap Top.names = {}
      /\ Top.unread \subseteq Nodes /\ Top.names \subseteq Nodes
      /\ (progress = "clean" => Top.unread = {}) /\ Scan.progress = progress
      /\ admitting = Root /\ parse = NoParse
  BY <1>2, IdleFacts
<1>7. f \in Frames /\ f.dir = Top.dir /\ f.unread = Top.unread /\ f.names = Top.names \ {n}
      /\ f.stage = Top.stage
  <2>1. Top.names \ {n} \in SUBSET Nodes
    BY <1>6
  <2> QED
    BY <1>6, <2>1, FrameNames
<1>8. \A m : HasEntry(t, m) <=> HasEntry(Scan, m)
  BY <1>2, <1>4 DEF HasEntry
<1>9. CASE ~e.walk
  <2>1. Inspected(n)
    <3> DEFINE q == Front(stack) \o <<f>>
    <3>1. stack' = q \o <<>>
      BY <1>5, <1>9
    <3>2. q \in Seq(Frames)
      <4>1. stack \in Seq(Frames)
        BY DEF ScanInv, Walk, FramesOK
      <4>2. Front(stack) \in Seq(Frames)
        BY <1>2, <4>1, TopFacts DEF Front
      <4> HIDE DEF f
      <4> QED
        BY <1>7, <4>2
    <3>3. q \o <<>> = q
      BY <3>2
    <3> QED
      BY <3>1, <3>3 DEF Inspected, SetTop
  <2>2. Dealt(t, n)
    BY <1>4, <1>9, NotWanted DEF Dealt
  <2>3. t.openFiles = openFiles
    BY <1>4, <1>9
  <2> QED
    BY <1>1, <1>4, <1>5, <1>8, <2>1, <2>2, <2>3, InspectedKeeps
<1>10. CASE e.walk
  <2>1. PICK visited : Walk(visited)
    BY DEF ScanInv
  <2>2. n \in Pending /\ n \notin visited /\ n # Root
    BY <1>2, <2>1, TopRemains, IsTree DEF Walk, SeenOnce, Remaining
  <2>3. stack' = Front(stack) \o <<f>> \o <<Frame(n)>>
    BY <1>5, <1>10
  <2> HIDE DEF f
  <2>4. Remaining(f) \subseteq Remaining(Top) /\ Remaining(Top) \ Remaining(f) = {n}
        /\ f.unread \cap f.names = {}
    BY <1>2, <1>6, <1>7 DEF Remaining
  <2> DEFINE v == visited \cup {n}
  <2>5. /\ FramesOK(v)' /\ stack' # <<>> /\ Len(stack') = Len(stack) + 1
        /\ Pending' = (Pending \ {n}) \cup Children(n)
        /\ stack'[Len(stack)] = f
        /\ stack'[Len(stack) + 1].stage = "read"
        /\ \A i \in DOMAIN stack : i # Len(stack) => stack'[i] = stack[i]
    <3>1. FramesOK(visited)
      BY <2>1 DEF Walk
    <3> HIDE DEF v
    <3>2. /\ FramesOK(visited \cup {n})' /\ stack' # <<>> /\ Len(stack') = Len(stack) + 1
          /\ Pending' = (Pending \ (Remaining(Top) \ Remaining(f))) \cup Children(n)
          /\ stack'[Len(stack)] = f /\ stack'[Len(stack) + 1].unread = Children(n)
          /\ stack'[Len(stack) + 1].stage = "read"
          /\ \A i \in DOMAIN stack : i # Len(stack) => stack'[i] = stack[i]
      BY <1>2, <1>7, <2>2, <2>3, <2>4, <3>1, Pushed
    <3> QED
      BY <2>4, <3>2 DEF v
  <2>6. Scan' = t /\ t \in Scans
    BY <1>4, <1>5, StillSound DEF Goes, Sound
  <2>7. progress' = t.progress /\ (t.progress = "clean" => progress = "clean")
    BY <1>4, <1>5 DEF Commit, Later, Scan
  <2>8. stack \in Seq(Frames) /\ stack' \in Seq(Frames) /\ Len(stack) \in Nat \ {0}
    BY <1>2, <2>1, <2>5, TopFacts DEF Walk, FramesOK
  <2>9. ReadingOK'
    BY <1>1, <1>6 DEF ReadingOK, Places
  <2>10. ReadThrough'
    <3>1. \A i \in DOMAIN stack' : i \in DOMAIN stack \/ i = Len(stack) + 1
      BY <2>5, <2>8
    <3>2. progress = "clean" => f.unread = {}
      BY <1>6, <1>7
    <3> QED
      BY <2>5, <2>7, <3>1, <3>2 DEF ReadThrough, ScanInv
  <2>11. \A m \in Children(n) : m \in Nodes /\ Parent(m) = n /\ ~Met(m) /\ m \notin visited
    BY <2>1, <2>2 DEF Children, Parent, Walk, SeenOnce
  <2>12. SeenOnce(v)'
    <3>1. \A m \in Nodes : Met(m)' <=> HasEntry(t, m) \/ m \in Pending'
      <4>1. admitting' \notin Nodes
        BY <1>1, <1>6, IsTree
      <4> QED
        BY <2>6, <4>1, MetNext
    <3>2. \A m \in Nodes : Met(m)' => Met(m) \/ m \in Children(n)
      BY <1>8, <2>5, <3>1 DEF Met
    <3>3. \A m \in Nodes : Met(m)' \/ m \in v => Parent(m) \in v \cup {Root}
      <4>1. Parent(n) \in visited \cup {Root}
        BY <2>1, <2>2 DEF Walk, SeenOnce, Met
      <4> QED
        BY <2>1, <2>11, <3>2, <4>1 DEF Walk, SeenOnce
    <3>4. \A m \in Pending' : ~HasEntry(Scan, m)' /\ m # admitting'
      <4> SUFFICES ASSUME NEW m \in Pending' PROVE ~HasEntry(t, m) /\ m # Root
        BY <1>1, <1>6, <2>6, MetNext
      <4>1. CASE m \in Pending
        BY <1>8, <2>1, <4>1, IsTree DEF Walk, SeenOnce, Pending
      <4>2. CASE m \in Children(n)
        BY <1>8, <2>11, <4>2, IsTree DEF Met
      <4> QED
        BY <2>5, <4>1, <4>2
    <3>5. v \cap Pending' = {}
      <4>1. n \notin Children(n)
        <5>1. Parent(n) # n
          BY <2>1, <2>2 DEF Walk, SeenOnce, Met
        <5> QED
          BY <5>1 DEF Children, Parent
      <4>2. visited \cap Pending = {}
        BY <2>1 DEF Walk, SeenOnce
      <4> QED
        BY <2>5, <2>11, <4>1, <4>2
    <3>6. v \subseteq Nodes
      BY <2>1 DEF Walk, SeenOnce
    <3> QED
      BY <3>3, <3>4, <3>5, <3>6 DEF SeenOnce
  <2>13. NothingMissed'
    <3> SUFFICES ASSUME NEW w \in Nodes, Wanted(w), Covered(w), t.progress = "clean"
                 PROVE  Covered(w)'
      BY <1>4, <1>5, <2>6, MissedNext
    <3>1. \A m \in Above[w] \cup {w} : m \in Pending => m \in Pending' \/ Covered(w)'
      <4> SUFFICES ASSUME n \in Above[w] \cup {w} PROVE Covered(w)'
        BY <2>5
      <4>1. n # w
        BY <1>1 DEF Wanted
      <4>2. PICK c \in Above[w] \cup {w} : Parent(c) = n
        BY <4>1, AboveChild
      <4>3. c \in Pending'
        BY <2>5, <4>2, AboveNodes DEF Children, Parent
      <4> QED
        BY <2>6, <4>2, <4>3, CoveredNext
    <3>2. w # admitting
      BY <1>6, IsTree
    <3> QED
      BY <1>4, <2>6, <3>1, <3>2, CoveredKept
  <2>14. ~failed => t.openFiles = OpenFiles(Len(stack'), admitting' # Root)
    <3>1. ~failed => openFiles = OpenFiles(Len(stack), FALSE)
      BY <1>6 DEF ScanInv
    <3> QED
      BY <1>1, <1>4, <1>6, <1>10, <2>5, <2>8, <3>1 DEF OpenFiles
  <2>15. Walk(v)'
    BY <2>5, <2>12 DEF Walk
  <2> QED
    BY <1>4, <1>5, <2>9, <2>10, <2>13, <2>14, <2>15, ScanGoes
<1> QED
  BY <1>4, <1>9, <1>10

LEMMA LeaveDirectoryKeeps ==
  ASSUME ScanInv, Goes, LeaveDirectory PROVE ScanInv'
<1> DEFINE count == IF Len(stack) = 1 THEN 1 ELSE 2
           t == Release(Scan, count)
<1>1. /\ Idle /\ stack # <<>> /\ Top.stage = "inspect" /\ UNCHANGED <<admitting, parse>>
      /\ Top.names = {} \/ Stopped(Scan)
      /\ stack' = Front(stack) /\ Commit(t)
  BY DEF LeaveDirectory, ReleaseFrame, KeepCache, cacheVars
<1>2. /\ Sound(Scan, 0) /\ Scan.openFiles = openFiles /\ admitting = Root /\ parse = NoParse
      /\ (progress = "clean" => Top.unread = {}) /\ Scan.progress = progress
  BY <1>1, IdleFacts
<1>3. /\ Sound(t, 0) /\ Later(Scan, t) /\ SameButFiles(Scan, t)
      /\ t.openFiles = openFiles - count /\ t.progress = progress
  BY <1>2, ReleaseFacts
<1> HIDE DEF t
<1>4. PICK visited : Walk(visited)
  BY DEF ScanInv
<1>5. /\ FramesOK(visited)' /\ Len(stack') = Len(stack) - 1
      /\ Pending' = Pending \ Remaining(Top)
      /\ DOMAIN stack' \subseteq DOMAIN stack
      /\ \A i \in DOMAIN stack' : stack'[i] = stack[i]
  BY <1>1, <1>4, Popped DEF Walk
<1>6. Len(stack) \in Nat \ {0}
  BY <1>1, <1>4, TopFacts DEF Walk, FramesOK
<1>7. Scan' = t /\ t \in Scans
  BY <1>1, <1>3, StillSound DEF Goes, Sound
<1>8. progress' = t.progress
  BY <1>1 DEF Commit
<1>9. ReadingOK'
  BY <1>1, <1>2 DEF ReadingOK, Places
<1>10. ReadThrough'
  BY <1>3, <1>5, <1>8 DEF ReadThrough, ScanInv
<1>11. \A m : HasEntry(t, m) <=> HasEntry(Scan, m)
  BY <1>3 DEF SameButFiles, HasEntry
<1>12. SeenOnce(visited)'
  <2>1. \A m \in Nodes : Met(m)' => Met(m)
    BY <1>1, <1>5, <1>7, <1>11, MetNext DEF Met
  <2>2. \A m \in Pending' : ~HasEntry(Scan, m)' /\ m # admitting'
    BY <1>1, <1>4, <1>5, <1>7, <1>11, MetNext DEF Walk, SeenOnce
  <2> QED
    BY <1>4, <1>5, <2>1, <2>2 DEF Walk, SeenOnce
<1>13. NothingMissed'
  <2> SUFFICES ASSUME NEW w \in Nodes, Wanted(w), Covered(w), t.progress = "clean"
               PROVE  Covered(w)'
    BY <1>1, <1>3, <1>7, MissedNext
  <2>1. Remaining(Top) = {}
    BY <1>1, <1>2, <1>3 DEF Stopped, Remaining
  <2>2. w # admitting
    BY <1>2, IsTree
  <2> QED
    BY <1>3, <1>5, <1>7, <2>1, <2>2, CoveredKept
<1>14. ~failed => t.openFiles = OpenFiles(Len(stack'), admitting' # Root)
  <2>1. ~failed => openFiles = OpenFiles(Len(stack), FALSE)
    BY <1>2 DEF ScanInv
  <2> QED
    <3>1. t.openFiles = openFiles - count /\ Len(stack') = Len(stack) - 1 /\ admitting' = Root
      BY <1>1, <1>2, <1>3, <1>5
    <3>2. CASE Len(stack) = 1
      BY <2>1, <3>1, <3>2 DEF OpenFiles
    <3>3. CASE Len(stack) # 1
      BY <1>6, <2>1, <3>1, <3>3 DEF OpenFiles
    <3> QED
      BY <3>2, <3>3
<1>15. Walk(visited)'
  BY <1>5, <1>12 DEF Walk
<1> QED
  BY <1>1, <1>3, <1>9, <1>10, <1>13, <1>14, <1>15, ScanGoes

LEMMA FinishParseKeeps ==
  ASSUME ScanInv, Goes, ParseOK, FinishParse PROVE ScanInv'
<1>1. /\ parse # NoParse /\ parse' = NoParse /\ admitting' = Root /\ stack' = stack
  BY DEF FinishParse, NoParse, KeepParsed
<1> DEFINE n == admitting
<1>2. /\ LimitsOK /\ Sound(Scan, 0) /\ n \in Nodes /\ n # Root /\ Node[n].inode \in Inodes
      /\ Admittable(Scan, n) /\ ~KnownFile(Scan, Node[n].inode)
      /\ Scan.openFiles = openFiles /\ Scan.budget = budget /\ openFiles \in Int
      /\ budget \in {"left", "spent", "reported"}
  <2>1. Sound(Scan, 0) /\ Scan \in Scans
    BY DEF ScanInv, IndexSound, Sound
  <2>2. /\ n \in Nodes /\ n # Root /\ Node[n].audio
        /\ Admittable(Scan, n) /\ ~KnownFile(Scan, Node[n].inode)
    BY <1>1 DEF ScanInv, ReadingOK, Places
  <2> QED
    BY <2>1, <2>2, LimitsFacts, ScanAssumption, ScanIsRecord, ScanFields
<1>3. parse.tags \in Int
  BY <1>1 DEF ParseOK, NoTags
<1>4. PICK spent \in {"left", "spent", "reported"} :
        Commit(Release(AdmitParsed([Release(Scan, 2) EXCEPT !.budget = spent], n, parse.tags), 1))
  BY <1>2 DEF FinishParse
<1> DEFINE r == Release(Scan, 2)
           s == [r EXCEPT !.budget = spent]
           u == AdmitParsed(s, n, parse.tags)
           t == Release(u, 1)
<1>5. /\ Sound(r, 0) /\ Later(Scan, r) /\ SameButFiles(Scan, r)
      /\ r.openFiles = openFiles - 2 /\ r.progress = Scan.progress
  BY <1>2, ReleaseFacts
<1> HIDE DEF r
<1>6. /\ s \in Scans /\ s.progress = r.progress /\ s.openFiles = r.openFiles /\ SameIndex(r, s)
  <2>1. r \in Scans
    BY <1>5 DEF Sound
  <2> QED
    BY <2>1, SetBudget
<1> HIDE DEF s
<1>7. Sound(s, 0) /\ Later(Scan, s)
  <2>1. Sound(s, 0) /\ Later(r, s)
    BY <1>5, <1>6, SoundKept, LaterKept
  <2> QED
    BY <1>5, <2>1, LaterJoined
<1>8. /\ Admittable(s, n) /\ ~KnownFile(s, Node[n].inode)
      /\ \A m : HasEntry(s, m) <=> HasEntry(Scan, m)
  BY <1>2, <1>5, <1>6 DEF Admittable, KnownFile, HasEntry, SameIndex, SameButFiles
<1>9. Admits(s, u, n)
  BY <1>2, <1>3, <1>7, <1>8, AdmitParsedFacts
<1> HIDE DEF u
<1>10. /\ Sound(t, 0) /\ Later(u, t) /\ SameButFiles(u, t) /\ t.openFiles = u.openFiles - 1
       /\ t.progress = u.progress
  BY <1>9, ReleaseFacts DEF Admits
<1>11. Commit(t)
  BY <1>4 DEF s, u, r
<1> HIDE DEF t
<1>12. Later(Scan, t)
  <2>1. Later(s, u)
    BY <1>9 DEF Admits
  <2>2. Later(s, t)
    BY <1>10, <2>1, LaterJoined
  <2> QED
    BY <1>7, <2>2, LaterJoined
<1>13. t.openFiles = openFiles - 3
  BY <1>2, <1>5, <1>6, <1>9, <1>10 DEF Admits
<1>14. \A m : HasEntry(t, m) <=> HasEntry(u, m)
  BY <1>10 DEF SameButFiles, HasEntry
<1>15. /\ HasEntry(t, n) \/ t.progress # "clean"
       /\ \A m : HasEntry(t, m) => HasEntry(Scan, m) \/ m = n
  BY <1>8, <1>9, <1>10, <1>14 DEF Admits
<1>16. Scan' = t /\ t \in Scans
  BY <1>10, <1>11, StillSound DEF Goes, Sound
<1>17. progress' = t.progress /\ (t.progress = "clean" => progress = "clean")
  BY <1>11, <1>12 DEF Commit, Later, Scan
<1>18. PICK visited : Walk(visited)
  BY DEF ScanInv
<1>19. Pending' = Pending /\ FramesOK(visited)'
  BY <1>1, <1>18 DEF Pending, FramesOK, Walk
<1>20. ReadingOK' /\ ReadThrough'
  BY <1>1, <1>17 DEF ReadingOK, Places, ReadThrough, ScanInv
<1>21. SeenOnce(visited)'
  <2>1. \A m \in Nodes : Met(m)' => Met(m)
    <3> SUFFICES ASSUME NEW m \in Nodes, Met(m)' PROVE Met(m)
      OBVIOUS
    <3>1. HasEntry(t, m) \/ m \in Pending
      BY <1>1, <1>16, <1>19, MetNext, IsTree
    <3> QED
      BY <1>15, <3>1 DEF Met
  <2>2. \A m \in Pending' : ~HasEntry(Scan, m)' /\ m # admitting'
    <3> SUFFICES ASSUME NEW m \in Pending PROVE ~HasEntry(t, m) /\ m # Root
      BY <1>1, <1>16, <1>19, MetNext
    <3>1. ~HasEntry(Scan, m) /\ m # n /\ m \in Nodes
      BY <1>18 DEF Walk, SeenOnce, Pending
    <3> QED
      BY <1>15, <3>1, IsTree
  <2> QED
    BY <1>18, <1>19, <2>1, <2>2 DEF Walk, SeenOnce
<1>22. NothingMissed'
  <2> SUFFICES ASSUME NEW w \in Nodes, Wanted(w), Covered(w), t.progress = "clean"
               PROVE  Covered(w)'
    BY <1>11, <1>12, <1>16, MissedNext
  <2>1. w = n => HasEntry(t, w)
    BY <1>15
  <2> QED
    BY <1>12, <1>16, <1>19, <2>1, CoveredKept
<1>23. ~failed => t.openFiles = OpenFiles(Len(stack'), admitting' # Root)
  <2>1. Len(stack) \in Nat
    BY <1>18 DEF Walk, FramesOK
  <2>2. ~failed => openFiles = OpenFiles(Len(stack), TRUE)
    BY <1>2 DEF ScanInv
  <2> QED
    BY <1>1, <1>2, <1>13, <2>1, <2>2 DEF OpenFiles
<1>24. Walk(visited)'
  BY <1>19, <1>21 DEF Walk
<1> QED
  BY <1>10, <1>11, <1>20, <1>22, <1>23, <1>24, ScanGoes

LEMMA ScanFailsKeeps ==
  ASSUME ScanInv, ScanFails, phase' = "scan" PROVE ScanInv'
<1>1. /\ Idle /\ stack' = <<>> /\ failed' = TRUE /\ limits' = limits
      /\ UNCHANGED <<progress, openFiles, indexVars, budget, admitting, parse>>
  BY DEF ScanFails, KeepCache, cacheVars
<1>2. Scan' = Scan
  BY <1>1 DEF Scan, indexVars
<1>3. IndexSound'
  BY <1>1, <1>2 DEF ScanInv, IndexSound, Sound, Charged
<1>4. admitting = Root /\ admitting' = Root /\ parse' = NoParse
  BY <1>1 DEF Idle, ScanInv, ReadingOK
<1>5. ReadingOK' /\ ReadThrough'
  BY <1>1, <1>4 DEF ReadingOK, Places, ReadThrough
<1>6. PICK visited : Walk(visited)
  BY DEF ScanInv
<1>7. Pending' = {} /\ FramesOK(visited)'
  BY <1>1 DEF Pending, FramesOK
<1>8. \A m \in Nodes : Met(m)' => Met(m)
  BY <1>1, <1>2, <1>7, MetNext DEF Met
<1>9. SeenOnce(visited)'
  BY <1>6, <1>7, <1>8 DEF Walk, SeenOnce
<1>10. \E v : Walk(v)'
  BY <1>7, <1>9 DEF Walk
<1> QED
  BY <1>1, <1>3, <1>5, <1>10 DEF ScanInv, NothingMissed

LEMMA ScanStepKeeps ==
  ASSUME ScanInv, CacheInv, phase = "scan", phase' = "scan", ScanStep PROVE ScanInv'
<1>1. CachedOK /\ ParseOK
  BY DEF CacheInv
<1>2. CASE ScanFails
  BY <1>2, ScanFailsKeeps
<1>3. CASE ReadName
  BY <1>3, ReadNameKeeps DEF ReadName, ScanKeeps, Goes
<1>4. CASE EndOfNames
  BY <1>4, EndOfNamesKeeps DEF EndOfNames, ScanKeeps, Goes
<1>5. CASE LeaveDirectory
  BY <1>5, LeaveDirectoryKeeps DEF LeaveDirectory, ScanKeeps, Goes
<1>6. CASE FinishParse
  BY <1>1, <1>6, FinishParseKeeps DEF FinishParse, ScanKeeps, Goes
<1>7. ASSUME NEW n \in Nodes, EntryFails(n) PROVE ScanInv'
  BY <1>7, EntryFailsKeeps DEF EntryFails, ScanKeeps, Goes
<1>8. ASSUME NEW n \in Nodes, EnterDirectory(n) PROVE ScanInv'
  BY <1>8, EnterDirectoryKeeps DEF EnterDirectory, ScanKeeps, Goes
<1>9. ASSUME NEW n \in Nodes, RegularEntry(n) PROVE ScanInv'
  BY <1>1, <1>9, RegularEntryKeeps DEF RegularEntry, ScanKeeps, Goes
<1>10. ASSUME NEW n \in Nodes, SymlinkEntry(n) PROVE ScanInv'
  BY <1>1, <1>10, SymlinkEntryKeeps DEF SymlinkEntry, ScanKeeps, Goes
<1> QED
  BY <1>2, <1>3, <1>4, <1>5, <1>6, <1>7, <1>8, <1>9, <1>10 DEF ScanStep

(* Nothing of the scan changes. *)
ScanKept ==
  UNCHANGED <<limits, progress, stack, openFiles, indexVars, budget, admitting, failed>>

LEMMA ScanKeptKeeps ==
  ASSUME ScanInv, ScanKept, parse' = NoParse <=> parse = NoParse,
         \/ phase' = phase
         \/ phase # "down" /\ phase' \in {"save", "up"} /\ stack = <<>> /\ ~failed
  PROVE  ScanInv'
<1>1. Scan' = Scan
  BY DEF ScanKept, Scan, indexVars
<1>2. IndexSound'
  BY <1>1 DEF ScanInv, ScanKept, IndexSound, Sound, Charged
<1>3. PICK a : a = admitting
  OBVIOUS
<1>4. admitting' = a /\ stack' = stack /\ progress' = progress
  BY <1>3 DEF ScanKept
<1>5. Admittable(Scan, a)' = Admittable(Scan, a)
      /\ KnownFile(Scan, Node[a].inode)' = KnownFile(Scan, Node[a].inode)
  BY <1>1 DEF Admittable, KnownFile, HasEntry
<1>6. ReadingOK'
  BY <1>1, <1>3, <1>4 DEF ReadingOK, ScanInv, Admittable, KnownFile, HasEntry
<1>7. ReadThrough' /\ Pending' = Pending
  BY <1>4 DEF ReadThrough, ScanInv, Pending
<1>8. \A m : HasEntry(Scan, m)' <=> HasEntry(Scan, m)
  BY <1>1, MetNext
<1>9. PICK visited : Walk(visited)
  BY DEF ScanInv
<1>10. \A m \in Nodes : Met(m)' <=> Met(m)
  BY <1>3, <1>4, <1>7, <1>8 DEF Met
<1>11. Walk(visited)'
  BY <1>3, <1>4, <1>7, <1>8, <1>9, <1>10 DEF Walk, FramesOK, SeenOnce
<1>12. \A w \in Nodes : (Wanted(w)' <=> Wanted(w)) /\ (Covered(w) => Covered(w)')
  <2>1. \A w \in Nodes : Wanted(w)' <=> Wanted(w)
    BY WantedKept DEF ScanKept
  <2>2. \A w \in Nodes : Covered(w) => Covered(w)'
    BY <1>1, <1>3, <1>4, <1>7, CoveredNext DEF Covered
  <2> QED
    BY <2>1, <2>2
<1>13. failed' = failed /\ openFiles' = openFiles /\ limits' = limits
  BY DEF ScanKept
<1>14. NothingMissed'
  BY <1>4, <1>12, <1>13 DEF NothingMissed, ScanInv
<1>15. \E v : Walk(v)'
  BY <1>11
<1>16. limits' \in {l[1] : l \in Limits}
  BY <1>13 DEF ScanInv
<1>17. ~failed' => openFiles' = OpenFiles(Len(stack'), admitting' # Root)
  BY <1>3, <1>4, <1>13 DEF ScanInv
<1>18. (phase' # "scan" => stack' = <<>>) /\ (phase' \in {"save", "up"} => ~failed')
  BY <1>4, <1>13 DEF ScanInv
<1> QED
  BY <1>2, <1>6, <1>7, <1>14, <1>15, <1>16, <1>17, <1>18 DEF ScanInv

(* A scan that has not begun. *)
Nothing(open) ==
  [progress |-> "clean", openFiles |-> open, assets |-> <<>>, entries |-> <<>>,
   playlists |-> [l \in {} |-> 0], warnings |-> <<>>, counters |-> NoCounters,
   budget |-> "left"]

LEMMA NothingFacts ==
  ASSUME NEW open \in Int
  PROVE  LET t == Nothing(open) IN
         /\ t \in Scans /\ Filed(t) /\ Cost(t) = 0 /\ t.counters.indexBytes = 0
         /\ t.playlists \in PlaylistCounts
         /\ \A n : ~HasEntry(t, n)
<1> DEFINE t == Nothing(open)
           none == [l \in {} |-> 0]
<1>1. none \in PlaylistCounts /\ DOMAIN none = {}
  <2>1. DOMAIN none = {} /\ none \in [DOMAIN none -> Nat]
    OBVIOUS
  <2> HIDE DEF none
  <2> QED
    BY <2>1, CountsOfLists
<1>2. NoCounters \in CounterRecords /\ NoCounters.indexBytes = 0
  BY DEF NoCounters, CounterRecords
<1>3. /\ t.progress = "clean" /\ t.openFiles = open /\ t.assets = <<>> /\ t.entries = <<>>
      /\ t.playlists = none /\ t.warnings = <<>> /\ t.counters = NoCounters
      /\ t.budget = "left"
  BY DEF Nothing
<1>4. t \in Scans
  <2> HIDE DEF none
  <2>1. <<>> \in Seq(AssetRecords) /\ <<>> \in Seq(EntryRecords) /\ <<>> \in Seq(Places)
    OBVIOUS
  <2>2. t = [progress |-> "clean", openFiles |-> open, assets |-> <<>>, entries |-> <<>>,
             playlists |-> none, warnings |-> <<>>, counters |-> NoCounters, budget |-> "left"]
    BY DEF Nothing, none
  <2> HIDE DEF t
  <2> QED
    BY <1>1, <1>2, <2>1, <2>2 DEF Scans
<1> HIDE DEF t, none
<1>5. Cardinality({}) = 0 /\ IsFiniteSet({}) /\ Len(<<>>) = 0
  BY FS_EmptySet
<1>6. Cost(t) = 0
  <2>1. Cost(t) = Charge.asset * 0 + Charge.entry * 0 + Charge.playlist * 0 + Charge.warning * 0
    BY <1>1, <1>3, <1>5 DEF Cost
  <2>2. \A c \in Nat : c * 0 = 0
    OBVIOUS
  <2> QED
    BY <2>1, <2>2, ChargeNat
<1>7. Filed(t)
  BY <1>1, <1>3, <1>5 DEF Filed
<1>8. \A n : ~HasEntry(t, n)
  BY <1>3 DEF HasEntry
<1> QED
  BY <1>1, <1>2, <1>3, <1>4, <1>6, <1>7, <1>8 DEF t

(* The index of a scan that has not begun is sound under any limits. *)
LEMMA NothingSound ==
  ASSUME NEW lim \in {l[1] : l \in Limits}, NEW open \in Int
  PROVE  LET t == Nothing(open) IN
         /\ t \in Scans /\ Filed(t) /\ Cost(t) + 0 = t.counters.indexBytes
         /\ t.counters.indexBytes <= lim.indexBytes
<1> DEFINE t == Nothing(open)
<1>1. t \in Scans /\ Filed(t) /\ Cost(t) = 0 /\ t.counters.indexBytes = 0
  BY NothingFacts
<1>2. lim.indexBytes \in Nat
  BY ScanAssumption
<1> HIDE DEF t
<1> QED
  BY <1>1, <1>2 DEF t

LEMMA ScanInvStart == LibraryInit => ScanInv
<1> SUFFICES ASSUME LibraryInit PROVE ScanInv
  OBVIOUS
<1>1. /\ limits \in {l[1] : l \in Limits} /\ stack = <<>> /\ admitting = Root /\ failed = FALSE
      /\ parse = NoParse /\ phase = "down" /\ openFiles = 1 /\ Scan = Nothing(1)
  BY DEF LibraryInit, ScanInit, CacheInit, Scan, Nothing
<1>2. PICK t : t = Nothing(1)
  OBVIOUS
<1>2a. PICK lim : lim = limits
  OBVIOUS
<1>2b. /\ t \in Scans /\ Filed(t) /\ Cost(t) + 0 = t.counters.indexBytes
       /\ t.counters.indexBytes <= lim.indexBytes
  BY <1>1, <1>2, <1>2a, NothingSound
<1>2c. Scan = t /\ limits = lim
  BY <1>1, <1>2, <1>2a
<1>3. IndexSound
  <2>1. Cost(t) \in Nat
    BY <1>2b, CostNat DEF Filed
  <2>2. Cost(t) + 0 <= t.counters.indexBytes
    BY <1>2b, <2>1, ScanFields
  <2> QED
    BY <1>2b, <1>2c, <2>2 DEF IndexSound, Sound, Charged
<1>4. ReadingOK /\ ReadThrough
  BY <1>1 DEF ReadingOK, ReadThrough, Places
<1>5. \A n : ~HasEntry(Scan, n)
  BY <1>1, NothingFacts
<1>6. Pending = {}
  BY <1>1 DEF Pending
<1>7. Walk({})
  BY <1>1, <1>5, <1>6, IsTree DEF Walk, FramesOK, SeenOnce, Met
<1>8. OpenFiles(0, FALSE) = 1
  BY DEF OpenFiles
<1> QED
  BY <1>1, <1>3, <1>4, <1>7, <1>8 DEF ScanInv, NothingMissed

(* The session is over. *)
LEMMA ProcessEndsKeeps ==
  ASSUME ScanInv, ProcessEnds PROVE ScanInv'
<1>1. /\ limits' = limits /\ stack' = <<>> /\ admitting' = Root /\ failed' = FALSE
      /\ parse' = NoParse /\ phase' = "down" /\ openFiles' = 1 /\ Scan' = Nothing(1)
  BY DEF ProcessEnds, Scan, Nothing
<1>2. PICK t : t = Nothing(1)
  OBVIOUS
<1>3. PICK lim : lim = limits
  OBVIOUS
<1>4. /\ t \in Scans /\ Filed(t) /\ Cost(t) + 0 = t.counters.indexBytes
      /\ t.counters.indexBytes <= lim.indexBytes /\ IsFiniteSet(DOMAIN t.playlists)
  BY <1>2, <1>3, NothingSound DEF ScanInv, Filed
<1>5. IndexSound'
  <2>1. Cost(t) \in Nat
    BY <1>4, CostNat
  <2>2. Cost(t) + 0 <= t.counters.indexBytes
    BY <1>4, <2>1, ScanFields
  <2>3. Scan' = t /\ limits' = lim
    BY <1>1, <1>2, <1>3
  <2> QED
    BY <1>4, <2>2, <2>3 DEF IndexSound, Sound, Charged
<1>6. ReadingOK' /\ ReadThrough'
  BY <1>1 DEF ReadingOK, ReadThrough, Places
<1>7. \A n : ~HasEntry(t, n)
  BY <1>2, NothingFacts
<1>8. Pending' = {}
  BY <1>1 DEF Pending
<1>9. \A m \in Nodes : ~Met(m)'
  BY <1>1, <1>2, <1>7, <1>8, MetNext, IsTree
<1>10. Walk({})'
  BY <1>1, <1>8, <1>9 DEF Walk, FramesOK, SeenOnce
<1>11. \E v : Walk(v)'
  BY <1>10
<1>12. openFiles' = OpenFiles(Len(stack'), admitting' # Root)
  BY <1>1 DEF OpenFiles
<1>13. limits' \in {l[1] : l \in Limits}
  BY <1>1 DEF ScanInv
<1> QED
  BY <1>1, <1>5, <1>6, <1>11, <1>12, <1>13 DEF ScanInv, NothingMissed

(* `scan_with_components_from': `audio' is entered, so that everything is below what is
   pending. *)
LEMMA StartKeeps ==
  ASSUME Start PROVE ScanInv'
<1> DEFINE f == Frame(Root)
<1>1. /\ limits' \in {l[1] : l \in Limits} /\ stack' = <<f>> /\ admitting' = Root
      /\ failed' = FALSE /\ parse' = NoParse /\ phase' = "scan" /\ openFiles' = 2
      /\ Scan' = Nothing(2)
  BY DEF Start, BeginScan, Scan, Nothing
<1>2. PICK t : t = Nothing(2)
  OBVIOUS
<1>3. PICK lim \in {l[1] : l \in Limits} : lim = limits'
  BY <1>1
<1>4. /\ t \in Scans /\ Filed(t) /\ Cost(t) + 0 = t.counters.indexBytes
      /\ t.counters.indexBytes <= lim.indexBytes /\ IsFiniteSet(DOMAIN t.playlists)
  BY <1>2, NothingSound DEF Filed
<1>5. IndexSound'
  <2>1. Cost(t) \in Nat
    BY <1>4, CostNat
  <2>2. Cost(t) + 0 <= t.counters.indexBytes
    BY <1>4, <2>1, ScanFields
  <2>3. Scan' = t /\ limits' = lim
    BY <1>1, <1>2, <1>3
  <2> QED
    BY <1>4, <2>2, <2>3 DEF IndexSound, Sound, Charged
<1>6. /\ f \in Frames /\ f.dir = Root /\ Remaining(f) = Children(Root) /\ f.stage = "read"
      /\ f.unread \cap f.names = {} /\ Children(Root) \subseteq Nodes
  BY DEF Frame, Frames, Remaining, Children, Places
<1> HIDE DEF f
<1>7. /\ stack' \in Seq(Frames) /\ Len(stack') = 1 /\ DOMAIN stack' = {1} /\ stack'[1] = f
  BY <1>1, <1>6
<1>8. ReadingOK' /\ ReadThrough'
  BY <1>1, <1>6, <1>7 DEF ReadingOK, ReadThrough, Places
<1>9. Pending' = Children(Root)
  BY <1>6, <1>7 DEF Pending
<1>10. \A m \in Nodes : ~HasEntry(t, m) /\ (Met(m)' <=> m \in Children(Root))
  BY <1>1, <1>2, <1>9, NothingFacts, MetNext, IsTree
<1>11. FramesOK({})'
  BY <1>6, <1>7 DEF FramesOK
<1>12. SeenOnce({})'
  <2>1. \A m \in Nodes : Met(m)' => Parent(m) \in {} \cup {Root}
    BY <1>10 DEF Children, Parent
  <2>2. \A m \in Pending' : ~HasEntry(Scan, m)' /\ m # admitting'
    BY <1>1, <1>2, <1>6, <1>9, <1>10, MetNext, IsTree
  <2> QED
    BY <2>1, <2>2 DEF SeenOnce
<1>13. \E v : Walk(v)'
  BY <1>11, <1>12 DEF Walk
<1>14. openFiles' = OpenFiles(Len(stack'), admitting' # Root)
  BY <1>1, <1>7 DEF OpenFiles
<1>15. NothingMissed'
  <2>1. ASSUME NEW w \in Nodes PROVE Covered(w)'
    <3>1. PICK m \in Above[w] \cup {w} : Parent(m) = Root
      BY AboveTop
    <3>2. m \in Pending'
      BY <1>9, <3>1, AboveNodes DEF Children, Parent
    <3> QED
      BY <1>1, <1>2, <3>1, <3>2, CoveredNext
  <2> QED
    BY <2>1 DEF NothingMissed
<1> QED
  BY <1>1, <1>5, <1>8, <1>13, <1>14, <1>15 DEF ScanInv

LEMMA HelperKeepsParse ==
  ASSUME CacheInv, HelperStep PROVE parse # NoParse /\ parse' # NoParse
<1>1. parse # NoParse
  BY DEF HelperStep, HelperReads, HelperExits, HelperFails, HelperReaped, NoParse
<1>2. parse = [step |-> parse.step, identity |-> parse.identity, tags |-> parse.tags]
  BY <1>1 DEF CacheInv, ParseOK
<1>3. parse'.step \in {"running", "answered", "late"}
  BY <1>2 DEF HelperStep, HelperReads, HelperExits, HelperFails, HelperReaped
<1> QED
  BY <1>1, <1>3 DEF NoParse

LEMMA ScanInvStep == ScanInv /\ CacheInv /\ [LibraryNext]_libraryVars => ScanInv'
<1> SUFFICES ASSUME ScanInv, CacheInv, [LibraryNext]_libraryVars PROVE ScanInv'
  OBVIOUS
<1>1. ASSUME Scanning PROVE ScanInv'
  <2>1. phase = "scan" /\ phase' = "scan"
    BY <1>1 DEF Scanning
  <2>2. CASE ScanStep
    BY <2>1, <2>2, ScanStepKeeps
  <2>3. CASE HelperStep /\ UNCHANGED scanVars
    BY <2>1, <2>3, HelperKeepsParse, ScanKeptKeeps DEF scanVars, ScanKept
  <2> QED
    BY <1>1, <2>2, <2>3 DEF Scanning
<1>2. ASSUME ScanEnds PROVE ScanInv'
  <2>1. CASE failed
    BY <1>2, <2>1, ProcessEndsKeeps DEF ScanEnds
  <2>2. CASE ~failed
    <3>1. phase = "scan" /\ stack = <<>> /\ phase' \in {"save", "up"}
          /\ UNCHANGED <<cacheVars, scanVars>>
      BY <1>2, <2>2 DEF ScanEnds, GoUp, ScanDone
    <3>2. ScanKept /\ parse' = parse
      BY <3>1 DEF cacheVars, scanVars, ScanKept
    <3> QED
      BY <2>2, <3>1, <3>2, ScanKeptKeeps
  <2> QED
    BY <2>1, <2>2
<1>3. ASSUME Save \/ SaveFails PROVE ScanInv'
  <2>1. phase = "save" /\ phase' \in {"save", "up"} /\ parse' = parse /\ UNCHANGED scanVars
    BY <1>3 DEF Save, SaveFails, GoUp, WriteTemporary, ReplaceCache
  <2>2. stack = <<>> /\ ~failed
    BY <2>1 DEF ScanInv
  <2>3. ScanKept
    BY <2>1 DEF scanVars, ScanKept
  <2> QED
    BY <2>1, <2>2, <2>3, ScanKeptKeeps
<1>4. ASSUME Others PROVE ScanInv'
  <2>1. UNCHANGED <<scanVars, phase, parse>>
    BY <1>4 DEF Others, EditMedia, SpoilCache
  <2> QED
    BY <2>1, ScanKeptKeeps DEF scanVars, ScanKept
<1>5. ASSUME UNCHANGED <<cacheVars, scanVars, phase>> PROVE ScanInv'
  BY <1>5, ScanKeptKeeps DEF cacheVars, scanVars, ScanKept
<1> QED
  BY <1>1, <1>2, <1>3, <1>4, <1>5, StartKeeps, ProcessEndsKeeps
     DEF LibraryNext, libraryVars, SessionEnds, Browsed

(* What the walk keeps: the index and what it is charged, the directories that are
   entered and the nodes that are met once, and that what is wanted and was not met yet
   is below something that is pending or was warned about. *)
THEOREM ScanHolds == LibrarySpec => []ScanInv
BY CacheHolds, ScanInvStart, ScanInvStep, PTL DEF LibrarySpec

(* The index is charged exactly for what it holds and stays within its limits, playlists
   count their entries, aliases share an asset, no path is admitted twice, and the open
   files are those of the walk: whatever the tree, the limits and the failures are
   (src/src/scan/mod.rs). *)
THEOREM IndexStaysExact == LibrarySpec => []IndexExact
<1>1. ScanInv => IndexExact
  <2> SUFFICES ASSUME ScanInv PROVE IndexExact
    OBVIOUS
  <2>1. Sound(Scan, 0) /\ Cost(Scan) \in Nat
    BY CostNat DEF ScanInv, IndexSound, Sound, Filed
  <2>2. Cost(Scan) = Retained
    BY ScanIsRecord DEF Cost, Retained
  <2>3. Retained <= counters.indexBytes /\ counters.indexBytes <= limits.indexBytes
        /\ (progress # "stopped" => Retained = counters.indexBytes)
    BY <2>1, <2>2, ScanIsRecord DEF Sound, Charged
  <2>4. \A l \in DOMAIN playlists :
          playlists[l] = Cardinality({k \in DOMAIN entries : Node[entries[k].node].list = l})
    BY <2>1, ScanIsRecord DEF Sound, Filed, OfList, ListOf
  <2>5. /\ \A k \in DOMAIN entries : assets[entries[k].asset].inode = Node[entries[k].node].inode
        /\ \A j, k \in DOMAIN assets : assets[j].inode = assets[k].inode => j = k
        /\ \A j, k \in DOMAIN entries : entries[j].node = entries[k].node => j = k
    BY <2>1, ScanIsRecord DEF Sound, Filed
  <2>6. ~failed => openFiles = 1 + (IF stack = <<>> THEN 0 ELSE 2 * Len(stack) - 1)
                                 + (IF admitting = Root THEN 0 ELSE 3)
    <3>1. stack \in Seq(Frames)
      BY DEF ScanInv, Walk, FramesOK
    <3>2. stack = <<>> <=> Len(stack) = 0
      BY <3>1
    <3> QED
      BY <3>2 DEF ScanInv, OpenFiles
  <2> QED
    BY <2>3, <2>4, <2>5, <2>6 DEF IndexExact
<1> QED
  BY <1>1, ScanHolds, PTL

(* A scan that ends complete has admitted every file that is wanted, or a warning names
   the file or a directory above it. *)
THEOREM NothingIsLostSilently == LibrarySpec => []NothingLostSilently
<1>1. ScanInv => NothingLostSilently
  <2> SUFFICES ASSUME ScanInv, phase \in {"save", "up"}, progress = "clean",
                      NEW n \in Nodes, Wanted(n)
               PROVE  Admitted(n) \/ \E m \in Above[n] \cup {n, Root} : WarnedAbout(m)
    BY DEF NothingLostSilently, LostSilently
  <2>1. stack = <<>> /\ ~failed
    BY DEF ScanInv
  <2>2. Pending = {} /\ admitting = Root
    BY <2>1 DEF Pending, ScanInv, ReadingOK
  <2>3. Covered(n)
    BY <2>1 DEF ScanInv, NothingMissed
  <2>4. n # admitting
    BY <2>2, IsTree
  <2>5. HasEntry(Scan, n) => Admitted(n)
    BY ScanIsRecord DEF HasEntry, Admitted
  <2>6. \A m : Warns(Scan, m) => WarnedAbout(m)
    BY ScanIsRecord DEF Warns, WarnedAbout
  <2> QED
    BY <2>2, <2>3, <2>4, <2>5, <2>6 DEF Covered
<1> QED
  BY <1>1, ScanHolds, PTL

-----------------------------------------------------------------------------
(* The leases and the terminal. *)

Files == [owner : Processes \cup {Nobody}, holder : Processes \cup {Nobody}]

Stages ==
  {"new", "open", "lock", "refused", "reset", "record", "leased", "terminal", "enter",
   "loop", "restoreAlternate", "restoreRaw", "dropAlternate", "dropRaw", "finish",
   "leave", "gone", "killed"}

Proc ==
  [stage : Stages, opened : Nat, active : Nat, root : Nat,
   named : Processes \cup {Nobody}, recorded : SUBSET Nat,
   guard : SUBSET Modes, stuck : SUBSET Modes]

Locations == Runtimes \cup {RootLock}

Typed ==
  /\ proc \in [Processes -> Proc]
  /\ lockFiles \in Seq(Files)
  /\ paths \in [Locations -> Nat]
  /\ tty \in [Processes -> SUBSET Modes]

(* Different paths lead to different files. *)
Separate ==
  /\ \A l \in Locations : paths[l] <= Len(lockFiles)
  /\ \A l, m \in Locations : l # m /\ paths[l] # 0 => paths[l] # paths[m]

(* A lease is the file that its path leads to, and is owned. *)
Holds(p) ==
  /\ proc[p].active # 0 =>
       proc[p].active = paths[RuntimeOf[p]] /\ lockFiles[proc[p].active].owner = p
  /\ proc[p].root # 0 =>
       /\ proc[p].active # 0
       /\ proc[p].root = paths[RootLock] /\ lockFiles[proc[p].root].owner = p

(* How far a process has got with its leases. *)
Placed(p) ==
  /\ InSession(p) \/ Stage(p) = "leased" => proc[p].root # 0
  /\ Stage(p) = "new" => proc[p].active = 0
  /\ Stage(p) \in {"new", "open", "lock", "refused"} => proc[p].root = 0
  /\ Stage(p) \in {"lock", "refused", "reset", "record"} =>
       proc[p].opened \in 1 .. Len(lockFiles)
  /\ Stage(p) = "lock" => proc[p].opened = paths[LockPath(p)]
  /\ Stage(p) \in {"reset", "record"} =>
       proc[p].opened = (IF proc[p].root # 0 THEN proc[p].root ELSE proc[p].active)

(* What a process has recorded names it for as long as it owns the file. *)
Recorded(p) ==
  /\ Stage(p) \in {"new", "open", "lock"} => proc[p].recorded = {proc[p].active} \ {0}
  /\ Stage(p) \in {"reset", "record"} =>
       proc[p].recorded = IF proc[p].root # 0 THEN {proc[p].active} ELSE {}
  /\ \A f \in proc[p].recorded :
       /\ f \in 1 .. Len(lockFiles)
       /\ lockFiles[f].owner = p => lockFiles[f].holder = p

LeaseInv ==
  /\ Typed /\ Separate
  /\ \A p \in Processes : Holds(p) /\ Placed(p) /\ Recorded(p)

(* The guard covers what was entered; what it could not leave is stuck. *)
Guarded(p) ==
  /\ tty[p] \subseteq proc[p].guard
  /\ Stage(p) \in {"new", "open", "lock", "refused", "reset", "record", "leased", "terminal"} =>
       proc[p].guard = {}
  /\ Stage(p) \in {"dropRaw", "finish", "leave", "gone"} =>
       proc[p].guard \cap {"alternate"} \subseteq proc[p].stuck
  /\ Stage(p) \in {"finish", "leave", "gone"} => proc[p].guard \subseteq proc[p].stuck

TerminalInv == Typed /\ \A p \in Processes : Guarded(p)

-----------------------------------------------------------------------------
USE LaunchAssumption

LEMMA NewFields ==
  /\ NewProcess \in Proc
  /\ NewProcess.stage = "new" /\ NewProcess.active = 0 /\ NewProcess.root = 0
  /\ NewProcess.recorded = {} /\ NewProcess.guard = {} /\ NewProcess.stuck = {}
BY DEF NewProcess, Proc, Stages

LEMMA InitTyped == Init => Typed
<1> SUFFICES ASSUME Init PROVE Typed
  OBVIOUS
<1>1. proc \in [Processes -> Proc]
  BY NewFields DEF Init
<1>2. lockFiles \in Seq(Files)
  BY DEF Init
<1>3. paths \in [Locations -> Nat] /\ tty \in [Processes -> SUBSET Modes]
  BY DEF Init, Locations
<1> QED
  BY <1>1, <1>2, <1>3 DEF Typed

LEMMA ProcFields ==
  ASSUME NEW r \in Proc
  PROVE  /\ r.opened \in Nat /\ r.active \in Nat /\ r.root \in Nat
         /\ r.recorded \subseteq Nat /\ r.guard \subseteq Modes /\ r.stuck \subseteq Modes
BY DEF Proc

(* What a step does to one process leaves the others alone. *)
LEMMA Changed ==
  ASSUME Typed, NEW p \in Processes, NEW r \in Proc, proc' = [proc EXCEPT ![p] = r]
  PROVE  proc' \in [Processes -> Proc] /\ proc'[p] = r
         /\ \A q \in Processes : q # p => proc'[q] = proc[q]
BY DEF Typed

LEMMA StageSet ==
  ASSUME Typed, NEW p \in Processes, NEW stage \in Stages, GoesTo(p, stage)
  PROVE  /\ proc' \in [Processes -> Proc]
         /\ \A q \in Processes : q # p => proc'[q] = proc[q]
         /\ proc'[p] = [proc[p] EXCEPT !.stage = stage]
         /\ proc'[p].stage = stage /\ proc'[p].opened = proc[p].opened
         /\ proc'[p].active = proc[p].active /\ proc'[p].root = proc[p].root
         /\ proc'[p].recorded = proc[p].recorded
         /\ proc'[p].guard = proc[p].guard /\ proc'[p].stuck = proc[p].stuck
<1>1. proc[p] \in Proc
  BY DEF Typed
<1>2. [proc[p] EXCEPT !.stage = stage] \in Proc
  BY <1>1 DEF Proc
<1>3. proc' = [proc EXCEPT ![p] = [proc[p] EXCEPT !.stage = stage]]
  BY DEF GoesTo
<1>4. /\ proc' \in [Processes -> Proc]
      /\ \A q \in Processes : q # p => proc'[q] = proc[q]
      /\ proc'[p] = [proc[p] EXCEPT !.stage = stage]
  BY <1>2, <1>3, Changed
<1> QED
  BY <1>1, <1>4 DEF Proc

LEMMA InitLease == Init => LeaseInv
<1> SUFFICES ASSUME Init PROVE LeaseInv
  OBVIOUS
<1>1. Typed
  BY InitTyped
<1>2. Len(lockFiles) = 0
  BY DEF Init
<1> QED
  BY <1>1, <1>2 DEF Init, LeaseInv, Separate, Holds, Placed, Recorded, InSession, Stage,
     NewProcess, Locations, LockPath, FirstLease

LEMMA LeaseFacts ==
  ASSUME LeaseInv, NEW p \in Processes
  PROVE  /\ proc[p] \in Proc /\ proc[p].stage \in Stages
         /\ proc[p].active \in Nat /\ proc[p].root \in Nat /\ proc[p].opened \in Nat
         /\ proc[p].recorded \subseteq Nat
         /\ Len(lockFiles) \in Nat /\ DOMAIN lockFiles = 1 .. Len(lockFiles)
         /\ \A f \in 1 .. Len(lockFiles) : lockFiles[f] \in Files
         /\ RuntimeOf[p] \in Locations /\ RootLock \in Locations
         /\ RuntimeOf[p] # RootLock
         /\ \A l \in Locations : paths[l] \in Nat /\ paths[l] <= Len(lockFiles)
         /\ proc[p].active # 0 => proc[p].active \in 1 .. Len(lockFiles)
         /\ proc[p].root # 0 => proc[p].root \in 1 .. Len(lockFiles) /\ proc[p].root # proc[p].active
<1>1. proc[p] \in Proc /\ proc[p].stage \in Stages
      /\ proc[p].active \in Nat /\ proc[p].root \in Nat /\ proc[p].opened \in Nat
      /\ proc[p].recorded \subseteq Nat
  BY DEF LeaseInv, Typed, Proc
<1>2. Len(lockFiles) \in Nat /\ DOMAIN lockFiles = 1 .. Len(lockFiles)
      /\ \A f \in 1 .. Len(lockFiles) : lockFiles[f] \in Files
  BY DEF LeaseInv, Typed
<1>3. RuntimeOf[p] \in Locations /\ RootLock \in Locations /\ RuntimeOf[p] # RootLock
  BY DEF Locations
<1>4. \A l \in Locations : paths[l] \in Nat /\ paths[l] <= Len(lockFiles)
  BY DEF LeaseInv, Typed, Separate
<1>5. proc[p].active # 0 => proc[p].active = paths[RuntimeOf[p]]
  BY DEF LeaseInv, Holds
<1>6. proc[p].root # 0 => proc[p].active # 0 /\ proc[p].root = paths[RootLock]
  BY DEF LeaseInv, Holds
<1>7. \A l, m \in Locations : l # m /\ paths[l] # 0 => paths[l] # paths[m]
  BY DEF LeaseInv, Separate
<1> HIDE DEF Locations
<1> QED
  BY <1>1, <1>2, <1>3, <1>4, <1>5, <1>6, <1>7

(* A step of one process that leaves the files and its leases alone. *)
LEMMA OwnStep ==
  ASSUME LeaseInv, NEW p \in Processes,
         UNCHANGED <<lockFiles, paths>>,
         proc' \in [Processes -> Proc], tty' \in [Processes -> SUBSET Modes],
         \A q \in Processes : q # p => proc'[q] = proc[q],
         proc'[p].active = proc[p].active, proc'[p].root = proc[p].root,
         proc'[p].recorded = proc[p].recorded,
         proc'[p].stage \in Stages \ {"new", "lock", "reset", "record"},
         proc'[p].stage \in {"open", "refused"} => proc[p].root = 0,
         proc'[p].stage = "open" => proc[p].recorded = {proc[p].active} \ {0},
         proc'[p].stage = "refused" => proc'[p].opened \in 1 .. Len(lockFiles),
         proc'[p].stage \notin {"open", "refused", "leave", "gone", "killed"} => proc[p].root # 0
  PROVE  LeaseInv'
<1>1. Typed' /\ Separate'
  BY DEF LeaseInv, Typed, Separate
<1>2. ASSUME NEW q \in Processes PROVE Holds(q)'
  <2>1. Holds(q)
    BY DEF LeaseInv
  <2>2. proc'[q].active = proc[q].active /\ proc'[q].root = proc[q].root
    OBVIOUS
  <2> QED
    BY <2>1, <2>2 DEF Holds
<1>3. ASSUME NEW q \in Processes PROVE Placed(q)'
  <2>1. Placed(q)
    BY DEF LeaseInv
  <2>2. CASE q = p
    BY <2>2 DEF Placed, InSession, Stage, Stages
  <2>3. CASE q # p
    <3>1. proc'[q] = proc[q]
      BY <2>3
    <3> QED
      BY <2>1, <3>1 DEF Placed, InSession, Stage, LockPath, FirstLease
  <2> QED
    BY <2>2, <2>3
<1>4. ASSUME NEW q \in Processes PROVE Recorded(q)'
  <2>1. Recorded(q)
    BY DEF LeaseInv
  <2>2. CASE q = p
    BY <2>1, <2>2 DEF Recorded, Stage
  <2>3. CASE q # p
    <3>1. proc'[q] = proc[q]
      BY <2>3
    <3> QED
      BY <2>1, <3>1 DEF Recorded, Stage
  <2> QED
    BY <2>2, <2>3
<1> QED
  BY <1>1, <1>2, <1>3, <1>4 DEF LeaseInv

LEMMA StageOnly ==
  ASSUME LeaseInv, NEW p \in Processes,
         \/ Begin(p) \/ OpenFails(p) \/ RecordFails(p) \/ Prepared(p)
         \/ LoopEnds(p) \/ LogsFinished(p)
  PROVE  LeaseInv'
<1>1. Typed /\ Holds(p) /\ Placed(p) /\ Recorded(p)
  BY DEF LeaseInv
<1>2. tty' \in [Processes -> SUBSET Modes]
  BY <1>1 DEF Begin, OpenFails, RecordFails, Prepared, LoopEnds, LogsFinished, Typed
<1>3. CASE Begin(p)
  <2>1. GoesTo(p, "open") /\ "open" \in Stages
    BY <1>3 DEF Begin, Stages
  <2>2. /\ proc' \in [Processes -> Proc] /\ proc'[p].stage = "open"
        /\ \A q \in Processes : q # p => proc'[q] = proc[q]
        /\ proc'[p].active = proc[p].active /\ proc'[p].root = proc[p].root
        /\ proc'[p].recorded = proc[p].recorded
    BY <1>1, <2>1, StageSet
  <2>3. UNCHANGED <<lockFiles, paths>> /\ Stage(p) = "new"
    BY <1>3 DEF Begin
  <2>4. proc[p].root = 0 /\ proc[p].recorded = {proc[p].active} \ {0}
    BY <1>1, <2>3 DEF Placed, Recorded
  <2> QED
    BY <1>2, <2>1, <2>2, <2>3, <2>4, OwnStep
<1>4. CASE OpenFails(p) \/ RecordFails(p) \/ LogsFinished(p)
  <2>1. GoesTo(p, "leave") /\ "leave" \in Stages
    BY <1>4 DEF OpenFails, RecordFails, LogsFinished, Stages
  <2>2. /\ proc' \in [Processes -> Proc] /\ proc'[p].stage = "leave"
        /\ \A q \in Processes : q # p => proc'[q] = proc[q]
        /\ proc'[p].active = proc[p].active /\ proc'[p].root = proc[p].root
        /\ proc'[p].recorded = proc[p].recorded
    BY <1>1, <2>1, StageSet
  <2>3. UNCHANGED <<lockFiles, paths>>
    BY <1>4 DEF OpenFails, RecordFails, LogsFinished
  <2> QED
    BY <1>2, <2>1, <2>2, <2>3, OwnStep
<1>5. CASE Prepared(p)
  <2>1. proc[p].root # 0
    BY <1>1, <1>5 DEF Prepared, Placed
  <2>2. PICK stage \in {"terminal", "finish", "leave"} : GoesTo(p, stage)
    BY <1>5 DEF Prepared
  <2>3. stage \in Stages
    BY DEF Stages
  <2>4. /\ proc' \in [Processes -> Proc] /\ proc'[p].stage = stage
        /\ \A q \in Processes : q # p => proc'[q] = proc[q]
        /\ proc'[p].active = proc[p].active /\ proc'[p].root = proc[p].root
        /\ proc'[p].recorded = proc[p].recorded
    BY <1>1, <2>2, <2>3, StageSet
  <2>5. UNCHANGED <<lockFiles, paths>>
    BY <1>5 DEF Prepared
  <2> QED
    BY <1>2, <2>1, <2>2, <2>3, <2>4, <2>5, OwnStep
<1>6. CASE LoopEnds(p)
  <2>1. proc[p].root # 0
    BY <1>1, <1>6 DEF LoopEnds, Placed, InSession
  <2>2. PICK stage \in {"restoreAlternate", "dropAlternate"} : GoesTo(p, stage)
    BY <1>6 DEF LoopEnds
  <2>3. stage \in Stages
    BY DEF Stages
  <2>4. /\ proc' \in [Processes -> Proc] /\ proc'[p].stage = stage
        /\ \A q \in Processes : q # p => proc'[q] = proc[q]
        /\ proc'[p].active = proc[p].active /\ proc'[p].root = proc[p].root
        /\ proc'[p].recorded = proc[p].recorded
    BY <1>1, <2>2, <2>3, StageSet
  <2>5. UNCHANGED <<lockFiles, paths>>
    BY <1>6 DEF LoopEnds
  <2> QED
    BY <1>2, <2>1, <2>2, <2>3, <2>4, <2>5, OwnStep
<1> QED
  BY <1>3, <1>4, <1>5, <1>6

LEMMA RefusalRead ==
  ASSUME LeaseInv, NEW p \in Processes, ReadHolder(p)
  PROVE  LeaseInv'
<1>1. Typed /\ proc[p] \in Proc /\ proc[p].opened \in 1 .. Len(lockFiles)
  BY LeaseFacts DEF LeaseInv, Placed, ReadHolder
<1>2. lockFiles[proc[p].opened].holder \in Processes \cup {Nobody}
  BY <1>1, LeaseFacts DEF Files
<1>3. PICK holder \in Processes \cup {Nobody} :
        proc' = [proc EXCEPT ![p].stage = "leave", ![p].named = holder]
  BY <1>2 DEF ReadHolder
<1>4. /\ \A q \in Processes : q # p => proc'[q] = proc[q]
      /\ proc'[p].active = proc[p].active /\ proc'[p].root = proc[p].root
      /\ proc'[p].recorded = proc[p].recorded /\ proc'[p].stage = "leave"
      /\ proc' \in [Processes -> Proc]
  BY <1>1, <1>3 DEF Typed, Proc, Stages
<1>5. UNCHANGED <<lockFiles, paths>> /\ tty' \in [Processes -> SUBSET Modes]
  BY <1>1 DEF ReadHolder, Typed
<1>6. "leave" \in Stages
  BY DEF Stages
<1> QED
  BY <1>4, <1>5, <1>6, OwnStep

(* What a step of the terminal session does to its process. *)
ModesSet(p, stage, guard, stuck) ==
  proc' = [proc EXCEPT ![p].stage = stage, ![p].guard = guard, ![p].stuck = stuck]

(* Entering and leaving the modes touches neither lease. *)
LEMMA ModeStep ==
  ASSUME LeaseInv, NEW p \in Processes, NEW stage \in Stages, NEW mode \in Modes,
         NEW guard \in SUBSET Modes, NEW stuck \in SUBSET Modes,
         stage \notin {"new", "open", "lock", "refused", "reset", "record"},
         InSession(p), UNCHANGED <<lockFiles, paths>>,
         tty' \in {tty, [tty EXCEPT ![p] = @ \cup {mode}], [tty EXCEPT ![p] = @ \ {mode}]},
         ModesSet(p, stage, guard, stuck)
  PROVE  LeaseInv'
<1>1. Typed /\ proc[p] \in Proc /\ proc[p].root # 0
  BY LeaseFacts DEF LeaseInv, Placed
<1>2. /\ \A q \in Processes : q # p => proc'[q] = proc[q]
      /\ proc'[p].active = proc[p].active /\ proc'[p].root = proc[p].root
      /\ proc'[p].recorded = proc[p].recorded /\ proc'[p].stage = stage
      /\ proc' \in [Processes -> Proc]
  BY <1>1 DEF Typed, Proc, ModesSet
<1>3. tty' \in [Processes -> SUBSET Modes]
  BY <1>1 DEF Typed
<1> QED
  BY <1>1, <1>2, <1>3, OwnStep

LEMMA ModesTouched ==
  ASSUME LeaseInv, NEW p \in Processes, EnableRaw(p) \/ EnterAlternate(p) \/ RestoreTerminal(p)
  PROVE  LeaseInv'
<1> DEFINE guard == proc[p].guard
           stuck == proc[p].stuck
<1>1. Typed /\ proc[p] \in Proc /\ guard \in SUBSET Modes /\ stuck \in SUBSET Modes
  BY LeaseFacts, ProcFields DEF LeaseInv
<1>2. "raw" \in Modes /\ "alternate" \in Modes
  BY DEF Modes
<1>3. \A stage \in Stages : GoesTo(p, stage) => ModesSet(p, stage, guard, stuck)
  BY <1>1 DEF GoesTo, Typed, Proc, ModesSet
<1>4. \A stage \in Stages, g \in SUBSET Modes :
        proc' = [proc EXCEPT ![p].stage = stage, ![p].guard = g] => ModesSet(p, stage, g, stuck)
  BY <1>1 DEF Typed, Proc, ModesSet
<1>5. \A stage \in Stages, s \in SUBSET Modes :
        proc' = [proc EXCEPT ![p].stage = stage, ![p].stuck = s] => ModesSet(p, stage, guard, s)
  BY <1>1 DEF Typed, Proc, ModesSet
<1>6. CASE EnableRaw(p)
  <2>1. InSession(p) /\ UNCHANGED <<lockFiles, paths>>
    BY <1>6 DEF EnableRaw, InSession
  <2>2. "enter" \in Stages /\ "finish" \in Stages /\ {"raw"} \in SUBSET Modes
    BY <1>2 DEF Stages
  <2>3. \/ tty' = [tty EXCEPT ![p] = @ \cup {"raw"}] /\ ModesSet(p, "enter", {"raw"}, stuck)
        \/ tty' = tty /\ ModesSet(p, "finish", guard, stuck)
    BY <1>3, <1>4, <1>6, <2>2 DEF EnableRaw
  <2> QED
    BY <1>1, <1>2, <2>1, <2>2, <2>3, ModeStep
<1>7. CASE EnterAlternate(p)
  <2>1. InSession(p) /\ UNCHANGED <<lockFiles, paths>>
    BY <1>7 DEF EnterAlternate, InSession
  <2>2. "loop" \in Stages /\ "dropAlternate" \in Stages /\ guard \cup {"alternate"} \in SUBSET Modes
    BY <1>1, <1>2 DEF Stages
  <2>3. PICK stage \in {"loop", "dropAlternate"} :
          proc' = [proc EXCEPT ![p].stage = stage, ![p].guard = guard \cup {"alternate"}]
    BY <1>7 DEF EnterAlternate
  <2>4. tty' \in {tty, [tty EXCEPT ![p] = @ \cup {"alternate"}]}
    BY <1>7 DEF EnterAlternate
  <2>5. stage \in Stages /\ ModesSet(p, stage, guard \cup {"alternate"}, stuck)
    BY <1>4, <2>2, <2>3
  <2> QED
    BY <1>1, <1>2, <2>1, <2>2, <2>4, <2>5, ModeStep
<1>8. CASE RestoreTerminal(p)
  <2>1. InSession(p) /\ UNCHANGED <<lockFiles, paths>>
    BY <1>8 DEF RestoreTerminal, LeaveMode, InSession
  <2>2. PICK mode \in Modes, next \in {"restoreRaw", "dropAlternate", "dropRaw", "finish"} :
          IF mode \in guard THEN Leaves(p, mode, next) ELSE GoesTo(p, next) /\ UNCHANGED tty
    BY <1>2, <1>8 DEF RestoreTerminal, LeaveMode
  <2>3. next \in Stages /\ next \notin {"new", "open", "lock", "refused", "reset", "record"}
    BY DEF Stages
  <2>4. CASE UNCHANGED tty /\ GoesTo(p, next)
    BY <1>1, <1>3, <2>1, <2>3, <2>4, ModeStep
  <2>5. CASE Leaves(p, mode, next)
    <3>1. tty' \in {tty, [tty EXCEPT ![p] = @ \ {mode}]}
      BY <2>5 DEF Leaves
    <3>2. \/ proc' = [proc EXCEPT ![p].stage = next, ![p].guard = guard \ {mode},
                                 ![p].stuck = stuck \ {mode}]
          \/ proc' = [proc EXCEPT ![p].stage = next, ![p].stuck = stuck \cup {mode}]
      BY <2>5 DEF Leaves
    <3>. guard \ {mode} \in SUBSET Modes /\ stuck \ {mode} \in SUBSET Modes
         /\ stuck \cup {mode} \in SUBSET Modes
      BY <1>1
    <3>3. ModesSet(p, next, guard \ {mode}, stuck \ {mode}) \/ ModesSet(p, next, guard, stuck \cup {mode})
      BY <1>5, <2>3, <3>2 DEF ModesSet
    <3> QED
      BY <1>1, <2>1, <2>3, <3>1, <3>3, ModeStep
  <2> QED
    BY <2>2, <2>4, <2>5
<1> QED
  BY <1>6, <1>7, <1>8

(* A new file is on no other path; an old one is as it was. *)
LEMMA Opened ==
  ASSUME LeaseInv, NEW p \in Processes, OpenLock(p)
  PROVE  LeaseInv'
<1> DEFINE l == LockPath(p)
           n == Len(lockFiles)
<1>1. /\ Typed /\ Separate /\ proc[p] \in Proc /\ l \in Locations /\ n \in Nat
      /\ proc[p].root = 0 /\ proc[p].recorded = {proc[p].active} \ {0}
  BY LeaseFacts DEF LeaseInv, OpenLock, Placed, Recorded, LockPath
<1>2. /\ lockFiles' \in Seq(Files) /\ Len(lockFiles') \in Nat /\ Len(lockFiles') >= n
      /\ \A f \in 1 .. n : lockFiles'[f] = lockFiles[f]
      /\ paths' \in [Locations -> Nat] /\ paths'[l] \in 1 .. Len(lockFiles')
      /\ \A m \in Locations : paths[m] # 0 => paths'[m] = paths[m]
      /\ \A m \in Locations : m # l => paths'[m] = paths[m]
      /\ paths[l] = 0 => paths'[l] = n + 1
  <2>1. CASE paths[l] = 0
    <3>1. [owner |-> Nobody, holder |-> Nobody] \in Files
      BY DEF Files
    <3>2. lockFiles' = Append(lockFiles, [owner |-> Nobody, holder |-> Nobody])
          /\ paths' = [paths EXCEPT ![l] = Len(lockFiles')]
      BY <2>1 DEF OpenLock
    <3>3. lockFiles' \in Seq(Files) /\ Len(lockFiles') = n + 1
          /\ \A f \in 1 .. n : lockFiles'[f] = lockFiles[f]
      BY <1>1, <3>1, <3>2 DEF Typed
    <3> HIDE DEF l, n
    <3> QED
      BY <1>1, <2>1, <3>2, <3>3 DEF Typed
  <2>2. CASE paths[l] # 0
    <3>1. UNCHANGED <<lockFiles, paths>>
      BY <2>2 DEF OpenLock
    <3>2. paths[l] \in Nat /\ paths[l] <= n
      BY <1>1 DEF Typed, Separate
    <3> HIDE DEF l
    <3> QED
      BY <1>1, <2>2, <3>1, <3>2 DEF Typed
  <2> QED
    BY <2>1, <2>2
<1>3. /\ proc' \in [Processes -> Proc]
      /\ \A q \in Processes : q # p => proc'[q] = proc[q]
      /\ proc'[p].stage = "lock" /\ proc'[p].opened = paths'[l]
      /\ proc'[p].active = proc[p].active /\ proc'[p].root = proc[p].root
      /\ proc'[p].recorded = proc[p].recorded
  <2>1. paths'[l] \in Nat
    BY <1>2
  <2>2. proc' = [proc EXCEPT ![p].stage = "lock", ![p].opened = paths'[l]]
    BY DEF OpenLock
  <2> HIDE DEF l
  <2> QED
    BY <1>1, <2>1, <2>2 DEF Typed, Proc, Stages
<1>4. Typed'
  BY <1>2, <1>3, <1>1 DEF Typed, OpenLock
<1>5. Separate'
  <2>1. ASSUME NEW m \in Locations PROVE paths'[m] <= Len(lockFiles')
    <3>1. paths[m] \in Nat /\ paths[m] <= n /\ paths'[m] \in Nat
      BY <1>1, <1>2 DEF Typed, Separate
    <3>2. m # l => paths'[m] = paths[m]
      BY <1>2
    <3>3. paths'[l] \in Nat /\ paths'[l] <= Len(lockFiles') /\ n \in Nat
          /\ Len(lockFiles') \in Nat /\ n <= Len(lockFiles')
      BY <1>1, <1>2
    <3> HIDE DEF l, n
    <3> QED
      BY <3>1, <3>2, <3>3
  <2>2. ASSUME NEW k \in Locations, NEW m \in Locations, k # m, paths'[k] # 0
        PROVE  paths'[k] # paths'[m]
    <3>1. /\ paths[k] \in Nat /\ paths[k] <= n /\ paths[m] \in Nat /\ paths[m] <= n
          /\ paths[k] # 0 => paths[k] # paths[m]
          /\ paths[m] # 0 => paths[m] # paths[k]
      BY <1>1, <2>2 DEF Typed, Separate
    <3> HIDE DEF l, n
    <3> QED
      BY <1>1, <1>2, <2>2, <3>1
  <2> QED
    BY <2>1, <2>2 DEF Separate
<1>6. ASSUME NEW q \in Processes PROVE Holds(q)'
  <2>1. Holds(q) /\ proc'[q].active = proc[q].active /\ proc'[q].root = proc[q].root
    BY <1>3 DEF LeaseInv
  <2>2. /\ RuntimeOf[q] \in Locations /\ RootLock \in Locations
        /\ proc[q].active # 0 => proc[q].active \in 1 .. n
        /\ proc[q].root # 0 => proc[q].root \in 1 .. n
    BY LeaseFacts
  <2> HIDE DEF l, n
  <2> QED
    BY <1>2, <2>1, <2>2 DEF Holds
<1>7. ASSUME NEW q \in Processes PROVE Placed(q)'
  <2>1. Placed(q)
    BY DEF LeaseInv
  <2>2. CASE q = p
    <3>1. LockPath(p)' = l
      BY <1>3 DEF LockPath, FirstLease
    <3> HIDE DEF l, n
    <3> QED
      BY <1>1, <1>2, <1>3, <2>2, <3>1 DEF Placed, InSession, Stage
  <2>3. CASE q # p
    <3>1. proc'[q] = proc[q] /\ LockPath(q)' = LockPath(q)
      BY <1>3, <2>3 DEF LockPath, FirstLease
    <3>2. LockPath(q) \in Locations
      BY LeaseFacts DEF LockPath
    <3>3. proc[q].opened \in 1 .. n => proc[q].opened \in 1 .. Len(lockFiles')
      BY <1>1, <1>2
    <3>4. Stage(q) = "lock" => proc[q].opened = paths'[LockPath(q)]
      BY <1>1, <1>2, <2>1, <3>2 DEF Placed
    <3> HIDE DEF l
    <3> QED
      BY <2>1, <3>1, <3>3, <3>4 DEF Placed, InSession, Stage
  <2> QED
    BY <2>2, <2>3
<1>8. ASSUME NEW q \in Processes PROVE Recorded(q)'
  <2>1. Recorded(q) /\ proc'[q].recorded = proc[q].recorded
        /\ proc'[q].active = proc[q].active /\ proc'[q].root = proc[q].root
    BY <1>3 DEF LeaseInv
  <2>2. \A f \in proc[q].recorded :
          /\ f \in 1 .. Len(lockFiles') /\ lockFiles'[f] = lockFiles[f]
          /\ lockFiles[f].owner = q => lockFiles[f].holder = q
    BY <1>1, <1>2, <2>1 DEF Recorded
  <2>3. q = p \/ proc'[q] = proc[q]
    BY <1>3
  <2> HIDE DEF l, n
  <2> QED
    BY <1>1, <1>3, <2>1, <2>2, <2>3 DEF Recorded, Stage
<1> QED
  BY <1>4, <1>5, <1>6, <1>7, <1>8 DEF LeaseInv

(* The owner of a file changes, or its identity; who else holds a file keeps it. *)
LEMMA FileChanged ==
  ASSUME LeaseInv, NEW p \in Processes, NEW q \in Processes, q # p,
         NEW f \in 1 .. Len(lockFiles),
         lockFiles[f].owner \in {p, Nobody},
         lockFiles' \in Seq(Files), Len(lockFiles') = Len(lockFiles),
         lockFiles'[f].owner \in {p, Nobody},
         \A g \in 1 .. Len(lockFiles) : g # f => lockFiles'[g] = lockFiles[g],
         UNCHANGED paths, proc'[q] = proc[q]
  PROVE  Holds(q)' /\ Placed(q)' /\ Recorded(q)'
<1>1. Holds(q) /\ Placed(q) /\ Recorded(q)
  BY DEF LeaseInv
<1>2. /\ proc[q].active # 0 => proc[q].active \in 1 .. Len(lockFiles)
      /\ proc[q].root # 0 => proc[q].root \in 1 .. Len(lockFiles)
  BY LeaseFacts
<1>3. q # Nobody
  BY DEF LaunchAssumption
<1>4. Holds(q)'
  BY <1>1, <1>2, <1>3 DEF Holds
<1>5. Placed(q)'
  BY <1>1 DEF Placed, InSession, Stage, LockPath, FirstLease
<1>6. Recorded(q)'
  <2>1. ASSUME NEW g \in proc[q].recorded
        PROVE  g \in 1 .. Len(lockFiles') /\ (lockFiles'[g].owner = q => lockFiles'[g].holder = q)
    BY <1>1, <1>3 DEF Recorded
  <2> QED
    BY <1>1, <2>1 DEF Recorded, Stage
<1> QED
  BY <1>4, <1>5, <1>6

(* A change of one file's owner or identity. *)
LEMMA FileSet ==
  ASSUME Typed, NEW f \in 1 .. Len(lockFiles), NEW value \in Processes \cup {Nobody},
         \/ lockFiles' = [lockFiles EXCEPT ![f].owner = value]
         \/ lockFiles' = [lockFiles EXCEPT ![f].holder = value]
  PROVE  /\ lockFiles' \in Seq(Files) /\ Len(lockFiles') = Len(lockFiles)
         /\ \A g \in 1 .. Len(lockFiles) : g # f => lockFiles'[g] = lockFiles[g]
         /\ lockFiles' = [lockFiles EXCEPT ![f].owner = value] =>
              lockFiles'[f].owner = value /\ lockFiles'[f].holder = lockFiles[f].holder
         /\ lockFiles' = [lockFiles EXCEPT ![f].holder = value] =>
              lockFiles'[f].owner = lockFiles[f].owner /\ lockFiles'[f].holder = value
<1>1. lockFiles[f] \in Files
  BY DEF Typed
<1>2. [lockFiles[f] EXCEPT !.owner = value] \in Files /\ [lockFiles[f] EXCEPT !.holder = value] \in Files
  BY <1>1 DEF Files
<1>3. CASE lockFiles' = [lockFiles EXCEPT ![f].owner = value]
  BY <1>1, <1>2, <1>3 DEF Typed, Files
<1>4. CASE lockFiles' = [lockFiles EXCEPT ![f].holder = value]
  BY <1>1, <1>2, <1>4 DEF Typed, Files
<1> QED
  BY <1>3, <1>4

LEMMA Locked ==
  ASSUME LeaseInv, NEW p \in Processes, Lock(p)
  PROVE  LeaseInv'
<1> DEFINE f == proc[p].opened
<1>01. Typed /\ Separate /\ Holds(p) /\ Placed(p) /\ Recorded(p)
  BY DEF LeaseInv
<1>02. /\ proc[p] \in Proc /\ f \in Nat
       /\ proc[p].active # 0 => proc[p].active \in 1 .. Len(lockFiles)
       /\ proc[p].root # 0 => proc[p].root \in 1 .. Len(lockFiles) /\ proc[p].root # proc[p].active
  BY LeaseFacts
<1>03. Stage(p) = "lock"
  BY DEF Lock
<1>1. /\ Typed /\ Separate /\ Holds(p) /\ Placed(p) /\ Recorded(p)
      /\ f \in 1 .. Len(lockFiles) /\ f # 0 /\ f = paths[LockPath(p)] /\ proc[p].root = 0
      /\ proc[p].recorded = {proc[p].active} \ {0}
      /\ proc[p] \in Proc /\ f \in Nat
  BY <1>01, <1>02, <1>03 DEF Placed, Recorded, Stage
<1>2. CASE lockFiles[f].owner # Nobody
  <2>1. GoesTo(p, "refused") /\ UNCHANGED <<lockFiles, paths>> /\ UNCHANGED tty
    BY <1>2 DEF Lock
  <2>2. "refused" \in Stages
    BY DEF Stages
  <2>3. /\ proc' \in [Processes -> Proc]
        /\ \A q \in Processes : q # p => proc'[q] = proc[q]
        /\ proc'[p].stage = "refused" /\ proc'[p].opened = proc[p].opened
        /\ proc'[p].active = proc[p].active /\ proc'[p].root = proc[p].root
        /\ proc'[p].recorded = proc[p].recorded
    BY <1>1, <2>1, <2>2, StageSet
  <2>4. tty' \in [Processes -> SUBSET Modes]
    BY <1>1, <2>1 DEF Typed
  <2>5. proc'[p].opened \in 1 .. Len(lockFiles) /\ proc[p].root = 0
    BY <1>1, <2>3
  <2>6. UNCHANGED <<lockFiles, paths>>
    BY <2>1
  <2>7. /\ proc'[p].stage \in Stages \ {"new", "lock", "reset", "record"}
        /\ proc'[p].stage # "open" /\ proc'[p].stage \notin {"leased"}
    BY <2>2, <2>3
  <2> HIDE DEF f
  <2> QED
    BY <2>3, <2>4, <2>5, <2>6, <2>7, OwnStep
<1>3. CASE lockFiles[f].owner = Nobody
  <2>1. /\ lockFiles' = [lockFiles EXCEPT ![f].owner = p]
        /\ proc' = [proc EXCEPT ![p].stage = "reset",
                                ![p].active = IF FirstLease(p) THEN f ELSE @,
                                ![p].root = IF FirstLease(p) THEN @ ELSE f]
        /\ UNCHANGED <<paths, tty>>
    BY <1>3 DEF Lock
  <2>2. /\ lockFiles' \in Seq(Files) /\ Len(lockFiles') = Len(lockFiles)
        /\ \A g \in 1 .. Len(lockFiles) : g # f => lockFiles'[g] = lockFiles[g]
        /\ lockFiles'[f].owner = p
    <3> HIDE DEF f
    <3>1. lockFiles' = [lockFiles EXCEPT ![f].owner = p] /\ p \in Processes \cup {Nobody}
      BY <2>1
    <3>2. Typed /\ f \in 1 .. Len(lockFiles)
      BY <1>1
    <3> QED
      BY <3>1, <3>2, FileSet, ZenonT(30)
  <2>3. /\ proc' \in [Processes -> Proc]
        /\ \A q \in Processes : q # p => proc'[q] = proc[q]
        /\ proc'[p].stage = "reset" /\ proc'[p].opened = f
        /\ proc'[p].active = (IF proc[p].active = 0 THEN f ELSE proc[p].active)
        /\ proc'[p].root = (IF proc[p].active = 0 THEN 0 ELSE f)
        /\ proc'[p].recorded = proc[p].recorded
    BY <1>1, <2>1 DEF Typed, Proc, Stages, FirstLease
  <2>4. Typed' /\ Separate'
    BY <1>1, <2>1, <2>2, <2>3 DEF Typed, Separate
  <2>5. ASSUME NEW q \in Processes, q # p
        PROVE  Holds(q)' /\ Placed(q)' /\ Recorded(q)'
    BY <1>1, <1>3, <2>1, <2>2, <2>3, <2>5, FileChanged
  <2>6. proc[p].active # 0 => proc[p].active # f /\ proc[p].active \in 1 .. Len(lockFiles)
    <3>1. proc[p].active # 0 => f = paths[RootLock] /\ proc[p].active = paths[RuntimeOf[p]]
      BY <1>1 DEF Holds, LockPath, FirstLease
    <3> QED
      BY <1>1, <3>1, LeaseFacts DEF Separate
  <2>7. Holds(p)'
    <3>1. proc[p].active = 0 => f = paths[RuntimeOf[p]]
      BY <1>1 DEF LockPath, FirstLease
    <3>2. proc[p].active # 0 => f = paths[RootLock]
      BY <1>1 DEF LockPath, FirstLease
    <3> HIDE DEF f
    <3> QED
      BY <1>1, <2>1, <2>2, <2>3, <2>6, <3>1, <3>2 DEF Holds
  <2>8. Placed(p)'
    BY <1>1, <2>2, <2>3 DEF Placed, InSession, Stage
  <2>9. Recorded(p)'
    BY <1>1, <2>2, <2>3, <2>6 DEF Recorded, Stage
  <2> QED
    BY <2>4, <2>5, <2>7, <2>8, <2>9 DEF LeaseInv
<1> QED
  BY <1>2, <1>3

LEMMA IdentityReset ==
  ASSUME LeaseInv, NEW p \in Processes, ResetIdentity(p)
  PROVE  LeaseInv'
<1> DEFINE f == proc[p].opened
<1>01. Typed /\ Separate /\ Holds(p) /\ Placed(p) /\ Recorded(p)
  BY DEF LeaseInv
<1>02. /\ proc[p] \in Proc /\ f \in Nat
       /\ proc[p].active # 0 => proc[p].active \in 1 .. Len(lockFiles)
       /\ proc[p].root # 0 => proc[p].root \in 1 .. Len(lockFiles) /\ proc[p].root # proc[p].active
  BY LeaseFacts
<1>03. Stage(p) = "reset" /\ "record" \in Stages
  BY DEF ResetIdentity, Stages
<1>1. /\ Typed /\ Separate /\ Holds(p) /\ Placed(p) /\ Recorded(p)
      /\ f \in 1 .. Len(lockFiles) /\ lockFiles[f].owner = p
      /\ proc[p].recorded = (IF proc[p].root # 0 THEN {proc[p].active} ELSE {})
      /\ f = (IF proc[p].root # 0 THEN proc[p].root ELSE proc[p].active)
      /\ proc[p].root # 0 => proc[p].root # proc[p].active
      /\ "record" \in Stages
  BY <1>01, <1>02, <1>03 DEF Placed, Recorded, Holds, Stage
<1>2. lockFiles' = [lockFiles EXCEPT ![f].holder = Nobody] /\ GoesTo(p, "record")
      /\ UNCHANGED <<paths, tty>>
  BY DEF ResetIdentity
<1>3. /\ lockFiles' \in Seq(Files) /\ Len(lockFiles') = Len(lockFiles)
      /\ \A g \in 1 .. Len(lockFiles) : g # f => lockFiles'[g] = lockFiles[g]
      /\ lockFiles'[f].owner = p
  BY <1>1, <1>2, FileSet
<1>4. /\ proc' \in [Processes -> Proc]
      /\ \A q \in Processes : q # p => proc'[q] = proc[q]
      /\ proc'[p].stage = "record" /\ proc'[p].opened = f
      /\ proc'[p].active = proc[p].active /\ proc'[p].root = proc[p].root
      /\ proc'[p].recorded = proc[p].recorded
  BY <1>1, <1>2, StageSet
<1>5. Typed' /\ Separate'
  BY <1>1, <1>2, <1>3, <1>4 DEF Typed, Separate
<1>6. ASSUME NEW q \in Processes, q # p
      PROVE  Holds(q)' /\ Placed(q)' /\ Recorded(q)'
  BY <1>1, <1>2, <1>3, <1>4, <1>6, FileChanged
<1>7. Holds(p)'
  <2>1. /\ proc[p].active # 0 => proc[p].active \in 1 .. Len(lockFiles)
        /\ proc[p].root # 0 => proc[p].root \in 1 .. Len(lockFiles)
    BY LeaseFacts
  <2> QED
    BY <1>1, <1>2, <1>3, <1>4, <2>1 DEF Holds
<1>8. Placed(p)'
  BY <1>1, <1>3, <1>4 DEF Placed, InSession, Stage
<1>9. Recorded(p)'
  BY <1>1, <1>3, <1>4 DEF Recorded, Stage
<1> QED
  BY <1>5, <1>6, <1>7, <1>8, <1>9 DEF LeaseInv

LEMMA IdentityRecorded ==
  ASSUME LeaseInv, NEW p \in Processes, RecordIdentity(p)
  PROVE  LeaseInv'
<1> DEFINE f == proc[p].opened
           next == IF proc[p].root = 0 THEN "open" ELSE "leased"
<1>01. Typed /\ Separate /\ Holds(p) /\ Placed(p) /\ Recorded(p)
  BY DEF LeaseInv
<1>02. /\ proc[p] \in Proc /\ f \in Nat
       /\ proc[p].active # 0 => proc[p].active \in 1 .. Len(lockFiles)
       /\ proc[p].root # 0 => proc[p].root \in 1 .. Len(lockFiles) /\ proc[p].root # proc[p].active
  BY LeaseFacts
<1>03. Stage(p) = "record" /\ next \in Stages
  BY DEF RecordIdentity, Stages
<1>1. /\ Typed /\ Separate /\ Holds(p) /\ Placed(p) /\ Recorded(p) /\ proc[p] \in Proc
      /\ f \in 1 .. Len(lockFiles) /\ f \in Nat /\ lockFiles[f].owner = p
      /\ proc[p].recorded = (IF proc[p].root # 0 THEN {proc[p].active} ELSE {})
      /\ f = (IF proc[p].root # 0 THEN proc[p].root ELSE proc[p].active)
      /\ proc[p].root # 0 => proc[p].root # proc[p].active
      /\ next \in Stages
  BY <1>01, <1>02, <1>03 DEF Placed, Recorded, Holds, Stage
<1>2. /\ lockFiles' = [lockFiles EXCEPT ![f].holder = p]
      /\ proc' = [proc EXCEPT ![p].stage = next, ![p].recorded = @ \cup {f}]
      /\ UNCHANGED <<paths, tty>>
  BY DEF RecordIdentity
<1>3. /\ lockFiles' \in Seq(Files) /\ Len(lockFiles') = Len(lockFiles)
      /\ \A g \in 1 .. Len(lockFiles) : g # f => lockFiles'[g] = lockFiles[g]
      /\ lockFiles'[f].owner = p /\ lockFiles'[f].holder = p
  BY <1>1, <1>2, FileSet
<1>4. /\ proc' \in [Processes -> Proc]
      /\ \A q \in Processes : q # p => proc'[q] = proc[q]
      /\ proc'[p].stage = next /\ proc'[p].opened = f
      /\ proc'[p].active = proc[p].active /\ proc'[p].root = proc[p].root
      /\ proc'[p].recorded = proc[p].recorded \cup {f}
  <2> HIDE DEF f, next
  <2>1. proc[p].recorded \cup {f} \in SUBSET Nat
    BY <1>1, LeaseFacts
  <2>2. proc[p].opened = f
    BY DEF f
  <2> QED
    BY <1>1, <1>2, <2>1, <2>2 DEF Typed, Proc
<1>5. Typed' /\ Separate'
  BY <1>1, <1>2, <1>3, <1>4 DEF Typed, Separate
<1>6. ASSUME NEW q \in Processes, q # p
      PROVE  Holds(q)' /\ Placed(q)' /\ Recorded(q)'
  <2>1. /\ f \in 1 .. Len(lockFiles) /\ lockFiles[f].owner \in {p, Nobody}
        /\ lockFiles'[f].owner \in {p, Nobody}
    BY <1>1, <1>3
  <2>2. UNCHANGED paths /\ proc'[q] = proc[q]
    BY <1>2, <1>4, <1>6
  <2> HIDE DEF f, next
  <2> QED
    BY <1>3, <1>6, <2>1, <2>2, FileChanged
<1>7. /\ proc[p].active # 0 => proc[p].active \in 1 .. Len(lockFiles)
      /\ proc[p].root # 0 => proc[p].root \in 1 .. Len(lockFiles)
  BY LeaseFacts
<1>8. Holds(p)'
  BY <1>1, <1>2, <1>3, <1>4, <1>7 DEF Holds
<1>9. Placed(p)'
  BY <1>1, <1>3, <1>4 DEF Placed, InSession, Stage
<1>10. Recorded(p)'
  BY <1>1, <1>3, <1>4 DEF Recorded, Stage
<1> QED
  BY <1>5, <1>6, <1>8, <1>9, <1>10 DEF LeaseInv

LEMMA LeaseReleased ==
  ASSUME LeaseInv, NEW p \in Processes, Leave(p)
  PROVE  LeaseInv'
<1>1. /\ Typed /\ Separate /\ Holds(p) /\ Placed(p) /\ Recorded(p)
      /\ proc[p].stage = "leave"
  BY DEF LeaseInv, Leave, Stage
<1>2. /\ proc[p] \in Proc
      /\ proc[p].active # 0 => proc[p].active \in 1 .. Len(lockFiles)
      /\ proc[p].root # 0 => proc[p].root \in 1 .. Len(lockFiles) /\ proc[p].root # proc[p].active
  BY LeaseFacts
<1>3. ASSUME proc[p].root = 0, proc[p].active = 0 PROVE LeaseInv'
  <2>1. GoesTo(p, "gone") /\ UNCHANGED <<lockFiles, paths, tty>> /\ "gone" \in Stages
    BY <1>3 DEF Leave, Stages
  <2>2. /\ proc' \in [Processes -> Proc]
        /\ \A q \in Processes : q # p => proc'[q] = proc[q]
        /\ proc'[p].stage = "gone"
        /\ proc'[p].active = proc[p].active /\ proc'[p].root = proc[p].root
        /\ proc'[p].recorded = proc[p].recorded
    BY <1>1, <2>1, StageSet
  <2>3. tty' \in [Processes -> SUBSET Modes]
    BY <1>1, <2>1 DEF Typed
  <2> QED
    BY <2>1, <2>2, <2>3, OwnStep
<1>4. ASSUME NEW f \in 1 .. Len(lockFiles), Unlock(f), UNCHANGED tty, lockFiles[f].owner = p,
             NEW active \in Nat, NEW root \in Nat,
             proc'[p].stage = "leave",
             proc'[p].active = active, proc'[p].root = root,
             proc'[p].recorded = proc[p].recorded,
             proc' \in [Processes -> Proc],
             \A q \in Processes : q # p => proc'[q] = proc[q],
             active # 0 => active = proc[p].active /\ active # f,
             root = 0
      PROVE  LeaseInv'
  <2>1. lockFiles' = [lockFiles EXCEPT ![f].owner = Nobody] /\ UNCHANGED paths
    BY <1>4 DEF Unlock
  <2>2. /\ lockFiles' \in Seq(Files) /\ Len(lockFiles') = Len(lockFiles)
        /\ \A g \in 1 .. Len(lockFiles) : g # f => lockFiles'[g] = lockFiles[g]
        /\ lockFiles'[f].owner = Nobody
    BY <1>1, <2>1, FileSet
  <2>3. Typed' /\ Separate'
    BY <1>1, <1>4, <2>1, <2>2 DEF Typed, Separate
  <2>4. ASSUME NEW q \in Processes, q # p
        PROVE  Holds(q)' /\ Placed(q)' /\ Recorded(q)'
    BY <1>4, <2>1, <2>2, <2>4, FileChanged
  <2>5. Holds(p)'
    BY <1>1, <1>2, <1>4, <2>1, <2>2 DEF Holds
  <2>6. Placed(p)'
    BY <1>4 DEF Placed, InSession, Stage
  <2>7. Recorded(p)'
    <3>1. p # Nobody
      BY DEF LaunchAssumption
    <3> QED
      BY <1>1, <1>4, <2>2, <3>1 DEF Recorded, Stage
  <2> QED
    BY <2>3, <2>4, <2>5, <2>6, <2>7 DEF LeaseInv
<1>5. ASSUME proc[p].root # 0 PROVE LeaseInv'
  <2>1. /\ Unlock(proc[p].root) /\ UNCHANGED tty
        /\ proc' = [proc EXCEPT ![p].root = 0]
    BY <1>5 DEF Leave
  <2>2. /\ proc'[p].stage = "leave" /\ proc'[p].active = proc[p].active /\ proc'[p].root = 0
        /\ proc'[p].recorded = proc[p].recorded /\ proc' \in [Processes -> Proc]
        /\ \A q \in Processes : q # p => proc'[q] = proc[q]
        /\ proc[p].active \in Nat
    BY <1>1, <1>2, <2>1 DEF Typed, Proc
  <2>3. lockFiles[proc[p].root].owner = p
    BY <1>1, <1>5 DEF Holds
  <2> QED
    BY <1>2, <1>4, <1>5, <2>1, <2>2, <2>3
<1>6. ASSUME proc[p].root = 0, proc[p].active # 0 PROVE LeaseInv'
  <2>1. /\ Unlock(proc[p].active) /\ UNCHANGED tty
        /\ proc' = [proc EXCEPT ![p].active = 0]
    BY <1>6 DEF Leave
  <2>2. /\ proc'[p].stage = "leave" /\ proc'[p].active = 0 /\ proc'[p].root = 0
        /\ proc'[p].recorded = proc[p].recorded /\ proc' \in [Processes -> Proc]
        /\ \A q \in Processes : q # p => proc'[q] = proc[q]
    BY <1>1, <1>2, <1>6, <2>1 DEF Typed, Proc
  <2>3. lockFiles[proc[p].active].owner = p
    BY <1>1, <1>6 DEF Holds
  <2> QED
    BY <1>2, <1>4, <1>6, <2>1, <2>2, <2>3
<1> QED
  BY <1>3, <1>5, <1>6

LEMMA Killed ==
  ASSUME LeaseInv, NEW p \in Processes, Kill(p)
  PROVE  LeaseInv'
<1> DEFINE freed(f) == IF lockFiles[f].owner = p THEN [lockFiles[f] EXCEPT !.owner = Nobody]
                       ELSE lockFiles[f]
<1>1. Typed /\ Separate /\ Recorded(p) /\ proc[p] \in Proc
      /\ Len(lockFiles) \in Nat /\ DOMAIN lockFiles = 1 .. Len(lockFiles)
  BY LeaseFacts DEF LeaseInv
<1>2. /\ proc' = [proc EXCEPT ![p].stage = "killed", ![p].active = 0, ![p].root = 0]
      /\ lockFiles' = [f \in 1 .. Len(lockFiles) |-> freed(f)]
      /\ UNCHANGED <<paths, tty>>
  BY <1>1 DEF Kill
<1>3. \A f \in 1 .. Len(lockFiles) :
        /\ freed(f) \in Files /\ freed(f).owner # p /\ freed(f).holder = lockFiles[f].holder
        /\ lockFiles[f].owner # p => freed(f) = lockFiles[f]
  <2>1. p # Nobody
    BY DEF LaunchAssumption
  <2> QED
    BY <1>1, <2>1, LeaseFacts DEF Files
<1>4. lockFiles' \in Seq(Files) /\ Len(lockFiles') = Len(lockFiles)
      /\ \A f \in 1 .. Len(lockFiles) : lockFiles'[f] = freed(f)
  <2> HIDE DEF freed
  <2> QED
    BY <1>1, <1>2, <1>3
<1> HIDE DEF freed
<1>5. /\ proc' \in [Processes -> Proc]
      /\ \A q \in Processes : q # p => proc'[q] = proc[q]
      /\ proc'[p].stage = "killed" /\ proc'[p].active = 0 /\ proc'[p].root = 0
      /\ proc'[p].recorded = proc[p].recorded
  BY <1>1, <1>2 DEF Typed, Proc, Stages
<1>6. Typed' /\ Separate'
  BY <1>1, <1>2, <1>4, <1>5 DEF Typed, Separate
<1>7. Holds(p)' /\ Placed(p)' /\ Recorded(p)'
  BY <1>1, <1>3, <1>4, <1>5 DEF Holds, Placed, Recorded, InSession, Stage
<1>8. ASSUME NEW q \in Processes, q # p PROVE Holds(q)' /\ Placed(q)' /\ Recorded(q)'
  <2>1. Holds(q) /\ Placed(q) /\ Recorded(q) /\ proc'[q] = proc[q]
    BY <1>5, <1>8 DEF LeaseInv
  <2>2. /\ proc[q].active # 0 => proc[q].active \in 1 .. Len(lockFiles)
        /\ proc[q].root # 0 => proc[q].root \in 1 .. Len(lockFiles)
    BY LeaseFacts
  <2>3. Holds(q)'
    BY <1>2, <1>3, <1>4, <1>8, <2>1, <2>2 DEF Holds
  <2>4. Placed(q)'
    BY <1>2, <1>4, <2>1 DEF Placed, InSession, Stage, LockPath, FirstLease
  <2>5. ASSUME NEW f \in proc[q].recorded
        PROVE  f \in 1 .. Len(lockFiles') /\ (lockFiles'[f].owner = q => lockFiles'[f].holder = q)
    <3>1. f \in 1 .. Len(lockFiles) /\ (lockFiles[f].owner = q => lockFiles[f].holder = q)
      BY <2>1 DEF Recorded
    <3>2. q # Nobody /\ (lockFiles[f].owner = p => freed(f).owner = Nobody)
      BY <1>1, <3>1, LeaseFacts DEF freed, Files, LaunchAssumption
    <3> QED
      BY <1>3, <1>4, <3>1, <3>2
  <2> QED
    BY <2>1, <2>3, <2>4, <2>5 DEF Recorded, Stage
<1> QED
  BY <1>6, <1>7, <1>8 DEF LeaseInv

-----------------------------------------------------------------------------
(* Every step is one of the lemmas above. *)
LEMMA NextLease == LeaseInv /\ [Next]_launchVars => LeaseInv'
<1> SUFFICES ASSUME LeaseInv, [Next]_launchVars PROVE LeaseInv'
  OBVIOUS
<1>1. ASSUME NEW p \in Processes, LeaseStep(p) PROVE LeaseInv'
  BY <1>1, StageOnly, Opened, Locked, RefusalRead, IdentityReset, IdentityRecorded,
     LeaseReleased DEF LeaseStep
<1>2. ASSUME NEW p \in Processes, Prepared(p) \/ LogsFinished(p) PROVE LeaseInv'
  BY <1>2, StageOnly
<1>3. ASSUME NEW p \in Processes, TerminalStep(p) PROVE LeaseInv'
  BY <1>3, StageOnly, ModesTouched DEF TerminalStep
<1>4. ASSUME NEW p \in Processes, Kill(p) PROVE LeaseInv'
  BY <1>4, Killed
<1>5. ASSUME UNCHANGED launchVars PROVE LeaseInv'
  <2>1. UNCHANGED <<proc, lockFiles, paths, tty>>
    BY <1>5 DEF launchVars
  <2>2. Typed' /\ Separate'
    BY <2>1 DEF LeaseInv, Typed, Separate
  <2>3. ASSUME NEW p \in Processes PROVE Holds(p)' /\ Placed(p)' /\ Recorded(p)'
    <3>1. Holds(p) /\ Placed(p) /\ Recorded(p)
      BY DEF LeaseInv
    <3>2. Holds(p)'
      BY <2>1, <3>1 DEF Holds
    <3>3. Placed(p)'
      BY <2>1, <3>1 DEF Placed, InSession, Stage, LockPath, FirstLease
    <3>4. Recorded(p)'
      BY <2>1, <3>1 DEF Recorded, Stage
    <3> QED
      BY <3>2, <3>3, <3>4
  <2> QED
    BY <2>2, <2>3 DEF LeaseInv
<1> QED
  BY <1>1, <1>2, <1>3, <1>4, <1>5 DEF Next

(* The inductive invariant of the leases holds throughout. *)
THEOREM LeasesHeld == Spec => []LeaseInv
BY InitLease, NextLease, PTL DEF Spec

LEMMA SessionsExclude == LeaseInv => OneWriter
<1> SUFFICES ASSUME LeaseInv, NEW p \in Processes, NEW q \in Processes,
                    InSession(p), InSession(q)
             PROVE  p = q
  BY DEF OneWriter
<1>1. Holds(p) /\ Placed(p) /\ Holds(q) /\ Placed(q)
  BY DEF LeaseInv
<1>2. proc[p].root # 0 /\ proc[q].root # 0
  BY <1>1 DEF Placed
<1> QED
  BY <1>1, <1>2 DEF Holds

(* For any number of processes and runtime directories one process at a time has a
   session on the root: `acquire_and_record' and the order of the two leases. *)
THEOREM OneWriterAlways == Spec => []OneWriter
BY LeasesHeld, SessionsExclude, PTL

LEMMA RefusalRight ==
  LeaseInv /\ [Next]_launchVars =>
    \A p \in Processes :
      LET f == proc[p].opened
          owner == lockFiles[f].owner
      IN  Stage(p) = "refused" /\ proc'[p].stage = "leave"
            /\ owner # Nobody /\ f \in proc[owner].recorded
          => proc'[p].named = owner
<1> SUFFICES ASSUME LeaseInv, [Next]_launchVars, NEW p \in Processes,
                    Stage(p) = "refused", proc'[p].stage = "leave",
                    lockFiles[proc[p].opened].owner # Nobody,
                    proc[p].opened \in proc[lockFiles[proc[p].opened].owner].recorded
             PROVE  proc'[p].named = lockFiles[proc[p].opened].owner
  OBVIOUS
<1>1. Typed /\ Placed(p) /\ proc[p].stage = "refused"
  BY DEF LeaseInv, Stage
<1>2. ASSUME NEW q \in Processes, q # p,
             LeaseStep(q) \/ Prepared(q) \/ TerminalStep(q) \/ LogsFinished(q) \/ Kill(q)
      PROVE  proc'[p] = proc[p]
  <2>1. CASE LeaseStep(q)
    BY <1>1, <1>2, <2>1 DEF Typed, LeaseStep, Begin, OpenLock, OpenFails, Lock, ReadHolder,
       ResetIdentity, RecordIdentity, RecordFails, Leave, GoesTo
  <2>2. CASE Prepared(q) \/ LogsFinished(q) \/ Kill(q)
    BY <1>1, <1>2, <2>2 DEF Typed, Prepared, LogsFinished, Kill, GoesTo
  <2>3. CASE TerminalStep(q)
    BY <1>1, <1>2, <2>3 DEF Typed, TerminalStep, EnableRaw, EnterAlternate, LoopEnds,
       RestoreTerminal, LeaveMode, Leaves, GoesTo
  <2> QED
    BY <1>2, <2>1, <2>2, <2>3
<1>3. ASSUME LeaseStep(p) \/ Prepared(p) \/ TerminalStep(p) \/ LogsFinished(p)
      PROVE  ReadHolder(p)
  BY <1>1, <1>3 DEF LeaseStep, Begin, OpenLock, OpenFails, Lock, ResetIdentity,
     RecordIdentity, RecordFails, Leave, Prepared, LogsFinished, TerminalStep, EnableRaw,
     EnterAlternate, LoopEnds, RestoreTerminal, LeaveMode, Stage
<1>4. ~Kill(p)
  BY <1>1 DEF Kill, Typed, Proc
<1>5. ~UNCHANGED launchVars
  BY <1>1 DEF launchVars
<1>6. ReadHolder(p)
  BY <1>1, <1>2, <1>3, <1>4, <1>5 DEF Next
<1>7. proc[p].opened \in 1 .. Len(lockFiles)
  BY <1>1 DEF Placed, Stage
<1>8. lockFiles[proc[p].opened].owner \in Processes
  BY <1>7, LeaseFacts DEF Files
<1>9. lockFiles[proc[p].opened].holder = lockFiles[proc[p].opened].owner
  <2>1. Recorded(lockFiles[proc[p].opened].owner)
    BY <1>8 DEF LeaseInv
  <2> QED
    BY <2>1 DEF Recorded
<1>10. proc'[p].named = lockFiles[proc[p].opened].holder
  BY <1>1, <1>6 DEF ReadHolder, Typed, Proc
<1> QED
  BY <1>9, <1>10

(* Whoever is refused is told who holds the lease, once the holder has recorded
   itself: what `acquire_and_record' reads is never a former holder's identity. *)
THEOREM RefusalNames == Spec => RefusalNamesHolder
BY LeasesHeld, RefusalRight, PTL DEF Spec, RefusalNamesHolder

-----------------------------------------------------------------------------
(* The terminal. *)

LEMMA InitTerminal == Init => TerminalInv
<1> SUFFICES ASSUME Init PROVE TerminalInv
  OBVIOUS
<1>1. Typed
  BY InitTyped
<1>2. \A p \in Processes : Guarded(p)
  BY NewFields DEF Init, Guarded
<1> QED
  BY <1>1, <1>2 DEF TerminalInv

(* The modes that a process has entered and noted are its own. *)
LEMMA OtherGuarded ==
  ASSUME NEW q \in Processes, Guarded(q), proc'[q] = proc[q], tty'[q] = tty[q]
  PROVE  Guarded(q)'
BY DEF Guarded, Stage

LEMMA GuardKept ==
  ASSUME TerminalInv, NEW p \in Processes,
         LeaseStep(p) \/ Prepared(p) \/ LogsFinished(p) \/ Kill(p) \/ LoopEnds(p)
  PROVE  \A q \in Processes : Guarded(q)'
<1>1. Typed /\ Guarded(p) /\ proc[p] \in Proc
  BY DEF TerminalInv, Typed
<1>2. /\ tty' = tty
      /\ \A q \in Processes : q # p => proc'[q] = proc[q]
      /\ proc'[p].guard = proc[p].guard /\ proc'[p].stuck = proc[p].stuck
  <2>1. CASE LeaseStep(p)
    BY <1>1, <2>1 DEF Typed, Proc, LeaseStep, Begin, OpenLock, OpenFails, Lock, ReadHolder,
       ResetIdentity, RecordIdentity, RecordFails, Leave, GoesTo
  <2>2. CASE Prepared(p) \/ LogsFinished(p) \/ Kill(p) \/ LoopEnds(p)
    BY <1>1, <2>2 DEF Typed, Proc, Prepared, LogsFinished, Kill, LoopEnds, GoesTo
  <2> QED
    BY <2>1, <2>2
<1>3. Guarded(p)'
  <2>1. CASE LeaseStep(p)
    <3>1. proc[p].guard = {} \/ (proc[p].stage = "leave" /\ proc'[p].stage \in {"leave", "gone"})
      BY <1>1, <2>1 DEF Guarded, Stage, Typed, Proc, LeaseStep, Begin, OpenLock, OpenFails,
         Lock, ReadHolder, ResetIdentity, RecordIdentity, RecordFails, Leave, GoesTo
    <3> QED
      BY <1>1, <1>2, <3>1 DEF Guarded, Stage
  <2>2. CASE Prepared(p)
    <3>1. proc[p].guard = {}
      BY <1>1, <2>2 DEF Guarded, Stage, Prepared
    <3> QED
      BY <1>1, <1>2, <3>1 DEF Guarded, Stage
  <2>3. CASE LogsFinished(p)
    <3>1. proc[p].stage = "finish" /\ proc'[p].stage = "leave"
      BY <1>1, <2>3 DEF Stage, LogsFinished, GoesTo, Typed, Proc
    <3> QED
      BY <1>1, <1>2, <3>1 DEF Guarded, Stage
  <2>4. CASE Kill(p) \/ LoopEnds(p)
    <3>1. proc'[p].stage \in {"killed", "restoreAlternate", "dropAlternate"}
      BY <1>1, <2>4 DEF Kill, LoopEnds, GoesTo, Typed, Proc
    <3> QED
      BY <1>1, <1>2, <3>1 DEF Guarded, Stage
  <2> QED
    BY <2>1, <2>2, <2>3, <2>4
<1>4. ASSUME NEW q \in Processes, q # p PROVE Guarded(q)'
  BY <1>2, <1>4, OtherGuarded DEF TerminalInv
<1> QED
  BY <1>3, <1>4

LEMMA GuardGrown ==
  ASSUME TerminalInv, NEW p \in Processes, EnableRaw(p) \/ EnterAlternate(p)
  PROVE  \A q \in Processes : Guarded(q)'
<1>1. Typed /\ Guarded(p) /\ proc[p] \in Proc
  BY DEF TerminalInv, Typed
<1>2. \A q \in Processes : q # p => proc'[q] = proc[q] /\ tty'[q] = tty[q]
  BY <1>1 DEF Typed, EnableRaw, EnterAlternate, GoesTo
<1>3. Guarded(p)'
  <2>1. CASE EnableRaw(p)
    <3>1. proc[p].guard = {} /\ tty[p] = {}
      BY <1>1, <2>1 DEF Guarded, Stage, EnableRaw
    <3>2. \/ /\ proc'[p].stage = "enter" /\ proc'[p].guard = {"raw"}
             /\ tty'[p] = tty[p] \cup {"raw"}
          \/ proc'[p].stage = "finish" /\ proc'[p].guard = proc[p].guard /\ tty'[p] = tty[p]
      BY <1>1, <2>1 DEF EnableRaw, GoesTo, Typed, Proc
    <3> QED
      BY <3>1, <3>2 DEF Guarded, Stage
  <2>2. CASE EnterAlternate(p)
    <3>1. /\ proc'[p].stage \in {"loop", "dropAlternate"}
          /\ proc'[p].guard = proc[p].guard \cup {"alternate"}
          /\ tty'[p] \subseteq tty[p] \cup {"alternate"}
      BY <1>1, <2>2 DEF EnterAlternate, Typed, Proc
    <3> QED
      BY <1>1, <3>1 DEF Guarded, Stage
  <2> QED
    BY <2>1, <2>2
<1>4. ASSUME NEW q \in Processes, q # p PROVE Guarded(q)'
  BY <1>2, <1>4, OtherGuarded DEF TerminalInv
<1> QED
  BY <1>3, <1>4

LEMMA GuardLeft ==
  ASSUME TerminalInv, NEW p \in Processes, RestoreTerminal(p)
  PROVE  \A q \in Processes : Guarded(q)'
<1>1. Typed /\ Guarded(p) /\ proc[p] \in Proc /\ proc[p].guard \subseteq {"raw", "alternate"}
  BY ProcFields DEF TerminalInv, Typed, Modes
<1>2. PICK stage \in {"restoreAlternate", "restoreRaw", "dropAlternate", "dropRaw"},
           mode \in Modes, next \in {"restoreRaw", "dropAlternate", "dropRaw", "finish"} :
        /\ LeaveMode(p, stage, mode, next)
        /\ next = "dropRaw" => mode = "alternate"
        /\ next = "finish" => mode = "raw" /\ stage = "dropRaw"
  BY DEF RestoreTerminal, Modes
<1>3. proc[p].stage = stage
  BY <1>2 DEF LeaveMode, Stage
<1>4. \A q \in Processes : q # p => proc'[q] = proc[q] /\ tty'[q] = tty[q]
  BY <1>1, <1>2 DEF LeaveMode, Leaves, GoesTo, Typed
<1>5. /\ proc'[p].stage = next
      /\ \/ /\ tty'[p] = tty[p] \ {mode}
            /\ proc'[p].guard = proc[p].guard \ {mode} /\ proc'[p].stuck = proc[p].stuck \ {mode}
         \/ /\ tty'[p] \subseteq tty[p]
            /\ proc'[p].guard = proc[p].guard /\ proc'[p].stuck = proc[p].stuck \cup {mode}
         \/ /\ tty'[p] = tty[p] /\ mode \notin proc[p].guard
            /\ proc'[p].guard = proc[p].guard /\ proc'[p].stuck = proc[p].stuck
  BY <1>1, <1>2 DEF LeaveMode, Leaves, GoesTo, Typed, Proc
<1>6. Guarded(p)'
  <2>1. tty'[p] \subseteq proc'[p].guard
    BY <1>1, <1>5 DEF Guarded
  <2>2. ASSUME next = "dropRaw" PROVE proc'[p].guard \cap {"alternate"} \subseteq proc'[p].stuck
    BY <1>2, <1>5, <2>2
  <2>3. ASSUME next = "finish" PROVE proc'[p].guard \subseteq proc'[p].stuck
    <3>1. mode = "raw" /\ proc[p].guard \cap {"alternate"} \subseteq proc[p].stuck
      BY <1>1, <1>2, <1>3, <2>3 DEF Guarded, Stage
    <3> QED
      BY <1>1, <1>5, <3>1
  <2> QED
    BY <1>5, <2>1, <2>2, <2>3 DEF Guarded, Stage
<1>7. ASSUME NEW q \in Processes, q # p PROVE Guarded(q)'
  BY <1>4, <1>7, OtherGuarded DEF TerminalInv
<1> QED
  BY <1>6, <1>7

LEMMA NextTerminal == TerminalInv /\ Typed' /\ [Next]_launchVars => TerminalInv'
<1> SUFFICES ASSUME TerminalInv, Typed', [Next]_launchVars
             PROVE  \A q \in Processes : Guarded(q)'
  BY DEF TerminalInv
<1>1. ASSUME NEW p \in Processes,
             LeaseStep(p) \/ Prepared(p) \/ TerminalStep(p) \/ LogsFinished(p) \/ Kill(p)
      PROVE  \A q \in Processes : Guarded(q)'
  BY <1>1, GuardKept, GuardGrown, GuardLeft DEF TerminalStep
<1>2. ASSUME UNCHANGED launchVars PROVE \A q \in Processes : Guarded(q)'
  BY <1>2, OtherGuarded DEF launchVars, TerminalInv
<1> QED
  BY <1>1, <1>2 DEF Next

(* Whatever fails while the modes are entered or left, a process that has dropped
   its `TerminalGuard' has left what it entered, but for what would not be left. *)
THEOREM TerminalAlwaysRestored == Spec => []TerminalRestored
<1>1. LeaseInv => Typed
  BY DEF LeaseInv
<1>2. TerminalInv => TerminalRestored
  BY DEF TerminalInv, TerminalRestored, Guarded
<1> QED
  BY LeasesHeld, InitTerminal, NextTerminal, <1>1, <1>2, PTL DEF Spec

=============================================================================
