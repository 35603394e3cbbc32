---------------------------- MODULE MetadataCache ----------------------------
(***************************************************************************)
(* The metadata cache, src/src/metadata_cache.rs, and the helper process   *)
(* behind it, `parse_in_helper' of src/src/metadata.rs.                    *)
(*                                                                         *)
(* A media file is its inode; each time it is edited it becomes another    *)
(* version, which its size and its times tell from the ones before         *)
(* (`Identity').  The tags of a file are the version they were parsed from.*)
(* Module Scanner drives the operations of this module.                    *)
(***************************************************************************)
EXTENDS Integers, FiniteSetsExt

CONSTANTS
  Inodes,
  MaxVersion,    \* bounds the edits of one file
  MaxCached,     \* MAX_ENTRIES
  MaxTagBytes,   \* MAX_CACHE_BYTES, as a budget for the tags in memory
  TagBytes,      \* the size of each file's tags
  LongFields,    \* inodes with a tag longer than MAX_FIELD_BYTES
  Unreadable,    \* inodes that the parser refuses
  Bulky,         \* inodes whose tags are too long for a line of the cache file
  Absent, Invalid, Unsafe   \* a cache file that is missing, broken or not private

ASSUME CacheAssumption ==
  /\ MaxVersion \in Nat /\ MaxCached \in Nat /\ MaxTagBytes \in Nat
  /\ TagBytes \in [Inodes -> Nat]
  /\ Unreadable \cup Bulky \cup LongFields \subseteq Inodes

VARIABLES
  version,       \* what is in each media file
  cacheFile,     \* state/metadata.jsonl: its records, or one of the three
  writable,      \* CachedMetadataReader
  cached,
  parse,         \* the file that is being parsed, NoParse between
  saving,        \* the records of the temporary file, Absent when there is none
  scenario       \* what may happen in this session, the files that are edited and the
                 \* entries that fail included: bounds how much happens at once

cacheVars == <<version, cacheFile, writable, cached, parse, saving>>

NoTags == -1
NoParse == [step |-> "none"]

Identities == Inodes \X (0 .. MaxVersion)

Identity(inode) == <<inode, version[inode]>>

NoEntries == [i \in {} |-> NoTags]

-----------------------------------------------------------------------------
(* `load': nothing about the cache ever keeps a session from starting. *)

Readable == cacheFile \notin {Absent, Invalid, Unsafe}

Load ==
  /\ writable' = (cacheFile # Unsafe)
  /\ cached' = IF Readable
               THEN [i \in DOMAIN cacheFile |-> [tags |-> cacheFile[i], used |-> FALSE]]
               ELSE NoEntries

(* `cached': a hit is marked as used, so that it is saved again. *)
Hit(inode) == Identity(inode) \in DOMAIN cached

UseHit(inode) == cached' = [cached EXCEPT ![Identity(inode)].used = TRUE]

CachedBytes == MapThenSumSet(LAMBDA i : TagBytes[i[1]], DOMAIN cached)

(* What `insert' refuses: an overlong field, and anything once the cache is full,
   in entries or in bytes, its unused entries included. *)
Refused(inode) ==
  \/ inode \in LongFields
  \/ Cardinality(DOMAIN cached) >= MaxCached
  \/ CachedBytes + TagBytes[inode] > MaxTagBytes

Insert(i, tags) ==
  cached' = IF Refused(i[1]) THEN cached
            ELSE [j \in DOMAIN cached \cup {i} |->
                    IF j = i THEN [tags |-> tags, used |-> TRUE] ELSE cached[j]]

(* Mutant: a file that was edited meanwhile is cached as what it was before. *)
UncheckedIdentity(i) == TRUE

SameIdentity(i) == Identity(i[1]) = i

-----------------------------------------------------------------------------
(* `read_with' on a miss: the identity is taken, a helper is started, and the
   identity is compared again before the tags are kept. *)

BeginParse(inode) ==
  parse' = [step |-> "running", identity |-> Identity(inode), tags |-> NoTags]

(* The helper reads the file, whatever is in it by now. *)
HelperReads ==
  /\ parse.step = "running" /\ parse.tags = NoTags
  /\ parse.identity[1] \notin Unreadable
  /\ parse' = [parse EXCEPT !.tags = version[parse.identity[1]]]
  /\ UNCHANGED <<version, cacheFile, writable, cached, saving>>

(* It answers and exits; `wait_for_exit' has seen it. *)
HelperExits ==
  /\ parse.step = "running"
  /\ parse.tags # NoTags \/ parse.identity[1] \in Unreadable
  /\ parse' = [parse EXCEPT !.step = "answered"]
  /\ UNCHANGED <<version, cacheFile, writable, cached, saving>>

(* It crashes or cannot be started, or it takes more than HELPER_TIMEOUT. *)
HelperFails ==
  /\ "helper" \in scenario
  /\ parse.step = "running"
  /\ parse' \in {[parse EXCEPT !.step = "answered", !.tags = NoTags],
                 [parse EXCEPT !.step = "late", !.tags = NoTags]}
  /\ UNCHANGED <<version, cacheFile, writable, cached, saving>>

(* `terminate_and_reap': killed, waited for, its output thrown away. *)
HelperReaped ==
  /\ parse.step = "late"
  /\ parse' = [parse EXCEPT !.step = "answered"]
  /\ UNCHANGED <<version, cacheFile, writable, cached, saving>>

HelperStep == HelperReads \/ HelperExits \/ HelperFails \/ HelperReaped

(* The tags, or NoTags for an error, go back to the scanner. *)
KeepParsed ==
  /\ parse' = NoParse
  /\ IF parse.tags # NoTags /\ SameIdentity(parse.identity)
     THEN Insert(parse.identity, parse.tags)
     ELSE UNCHANGED cached

-----------------------------------------------------------------------------
(* `save': what this session used replaces the file in one step. *)

ToBeSaved == {i \in DOMAIN cached : cached[i].used /\ i[1] \notin Bulky}

Saved == [i \in ToBeSaved |-> cached[i].tags]

(* Mutant: the file is written in place. *)
WritesInPlace ==
  /\ saving = Absent
  /\ saving' = Saved
  /\ cacheFile' = Invalid
  /\ UNCHANGED <<version, writable, cached, parse>>

WriteTemporary ==
  /\ saving = Absent
  /\ saving' = Saved
  /\ UNCHANGED <<version, cacheFile, writable, cached, parse>>

(* The file that is replaced has to be a private one, or none at all. *)
ReplaceCache ==
  /\ saving # Absent
  /\ cacheFile # Unsafe
  /\ cacheFile' = saving
  /\ saving' = Absent
  /\ UNCHANGED <<version, writable, cached, parse>>

-----------------------------------------------------------------------------
(* What others do to the files. *)

(* A file is edited in place: the same inode, another version. *)
EditMedia ==
  /\ \E n \in Inodes \cap scenario :
       /\ version[n] < MaxVersion
       /\ version' = [version EXCEPT ![n] = @ + 1]
  /\ UNCHANGED <<cacheFile, writable, cached, parse, saving>>

(* Another release wrote the cache, or somebody removed or exposed it. *)
SpoilCache ==
  /\ "cache" \in scenario
  /\ cacheFile' \in {Absent, Invalid, Unsafe}
  /\ UNCHANGED <<version, writable, cached, parse, saving>>

CacheInit ==
  /\ version = [n \in Inodes |-> 0]
  /\ cacheFile = Absent
  /\ writable = FALSE
  /\ cached = NoEntries
  /\ parse = NoParse
  /\ saving = Absent

-----------------------------------------------------------------------------
(* Whatever is cached for a version of a file are the tags of that very version,
   in memory and on disk, although files are edited while they are parsed. *)
CacheTruthful ==
  /\ \A i \in DOMAIN cached : cached[i].tags = i[2]
  /\ Readable => \A i \in DOMAIN cacheFile : cacheFile[i] = i[2]

=============================================================================
