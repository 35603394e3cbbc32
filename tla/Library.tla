------------------------------- MODULE Library -------------------------------
(***************************************************************************)
(* The library of one session after another.  `scan_cached_from' of        *)
(* src/src/scan/mod.rs loads the metadata cache, scans, and saves the      *)
(* cache, unless the session only diagnoses; the terminal session then     *)
(* browses what was found.  Media files are edited, the cache file is      *)
(* spoiled and the process dies in between.                                *)
(***************************************************************************)
EXTENDS Browser

VARIABLES
  phase,     \* "down", "scan", "save" or "up"
  saves      \* save_cache: the session is not `diagnose'

libraryVars == <<cacheVars, scanVars, browser, phase, saves>>

Start ==
  /\ phase = "down"
  /\ phase' = "scan"
  /\ saves' \in BOOLEAN
  /\ Load
  /\ BeginScan
  /\ parse' = NoParse
  /\ UNCHANGED <<version, cacheFile, saving, browser>>

(* What the process kept in memory is gone. *)
ProcessEnds ==
  /\ phase' = "down"
  /\ progress' = "clean" /\ stack' = <<>> /\ openFiles' = 1
  /\ assets' = <<>> /\ entries' = <<>> /\ warnings' = <<>>
  /\ playlists' = [l \in {} |-> 0]
  /\ counters' = NoCounters
  /\ budget' = "left" /\ admitting' = Root /\ failed' = FALSE
  /\ writable' = FALSE /\ cached' = NoEntries /\ parse' = NoParse /\ saving' = Absent
  /\ browser' = NoBrowser
  /\ UNCHANGED <<version, cacheFile, scenario, limits, saves>>

(* `AppState::new', unless the session only reports what it found. *)
GoUp ==
  /\ phase' = "up"
  /\ IF saves THEN OpenBrowser ELSE UNCHANGED browser

ScanEnds ==
  /\ phase = "scan" /\ ScanDone
  /\ IF failed THEN ProcessEnds
     ELSE /\ IF saves /\ writable THEN phase' = "save" /\ UNCHANGED browser ELSE GoUp
          /\ UNCHANGED <<cacheVars, scanVars, saves>>

Save ==
  /\ phase = "save"
  /\ \/ WriteTemporary /\ UNCHANGED <<phase, browser>>
     \/ ReplaceCache /\ GoUp
  /\ UNCHANGED <<scanVars, saves>>

(* A cache that cannot be written is no reason not to play. *)
SaveFails ==
  /\ phase = "save"
  /\ "cache" \in scenario
  /\ saving' = Absent
  /\ GoUp
  /\ UNCHANGED <<version, cacheFile, writable, cached, parse, scanVars, saves>>

Browsed ==
  /\ phase = "up" /\ saves
  /\ "browse" \in scenario
  /\ Browse
  /\ UNCHANGED <<cacheVars, scanVars, phase, saves>>

(* The session is over, or the process dies. *)
SessionEnds ==
  /\ phase = "up" \/ ("crash" \in scenario /\ phase # "down")
  /\ ProcessEnds

Scanning ==
  /\ phase = "scan"
  /\ ScanStep \/ (HelperStep /\ UNCHANGED scanVars)
  /\ UNCHANGED <<browser, phase, saves>>

Others ==
  /\ EditMedia \/ (phase = "down" /\ SpoilCache)
  /\ UNCHANGED <<scanVars, browser, phase, saves>>

LibraryInit == CacheInit /\ ScanInit /\ phase = "down" /\ saves = FALSE /\ browser = NoBrowser

LibraryNext == Start \/ Scanning \/ ScanEnds \/ Save \/ SaveFails \/ Browsed \/ SessionEnds \/ Others

LibrarySpec == LibraryInit /\ [][LibraryNext]_libraryVars

-----------------------------------------------------------------------------
(* A scan that calls itself complete has lost nothing silently. *)
NothingLostSilently ==
  phase \in {"save", "up"} /\ progress = "clean" => \A n \in Nodes : ~LostSilently(n)

(* The cache file is replaced as a whole, by what this session has used: neither
   a crash nor a failed write leaves part of a cache behind. *)
CacheReplacedWhole ==
  [][ phase # "down" /\ cacheFile' # cacheFile => cacheFile' = Saved ]_libraryVars

=============================================================================
