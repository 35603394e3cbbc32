# suzumushi in TLA+

TLA+ modules, TLC configurations and TLAPS proofs for *suzumushi*, a local
terminal audio player written in Rust. All paths below are relative to the
repository; the Rust sources are in `src/src/`.

## The system

One process, one user, no network. Its threads and helpers:

| part | source | state | talks to |
| --- | --- | --- | --- |
| event loop | `terminal.rs`, `app.rs`, `app/*.rs` | `AppState`: playback, queue, settings, browser, status line | everything below |
| audio worker | `audio/mod.rs` | `WorkerCore`: at most one active track, a held seek | lanes to the loop, a decoder, an output |
| decoder helper | `audio/decoder.rs` | a child process and a reader thread per track | frames over a pipe |
| output stream | `audio/output.rs` | a PCM ring shared with the device callback | atomics |
| desktop control | `mpris.rs` | newest published state, D-Bus objects | bounded actions, newest-state slot |
| session store | `state.rs`, `StateSynchronizer` in `terminal.rs` | session and now-playing files | atomic file replacement |
| log worker | `logging.rs` | up to five log files | bounded queue, drop counter |
| leases | `locks.rs` | two advisory locks and their owners' identities | other processes |
| terminal modes | `TerminalGuard` in `terminal.rs` | the modes entered | the terminal |
| scanner | `scan/mod.rs` | the library index while it is built, its counters and limits | file system, tags |
| metadata cache | `metadata_cache.rs`, `metadata.rs` | tags by file identity, a helper process per parse | scanner, cache file |
| browser | `app/browser.rs` | rows, folds, selection, a search and its results | the index |

The event loop never shares memory with the worker. `AppState` turns a control
into at most one `PlaybackIntent`, which becomes an `AudioCommand` on a
bounded lane of 32 whose sender waits, or, for a seek, replaces the newest
seek. The worker answers with `AudioEvent`s on an unbounded lane and with
positions in a slot that keeps the newest. Every track load has a new
*playback generation*; every restart for a seek has a new *timeline*.
Commands, events and positions carry them, so that either side can tell what
still concerns the track it has.

### What is hard

* The display runs behind the worker. Controls must be judged by what was
  already asked for (`requested_status`), reports by the generation and
  timeline they belong to.
* Seeks overtake commands, replace each other, are held for 150 ms when they
  come in bursts, and may reach the end of a track whose length becomes known
  only meanwhile.
* Helpers, devices and their cleanup fail at any step; a failure must neither
  leave a track behind nor be reported twice.
* The queue is edited under a playing track, which may itself be removed. The
  place to continue from is then only a hint and a shuffle cursor.
* Quitting must end the worker even though its command lane is full.
* The log may lose records, when its queue is full or its disk fails, but never
  silently; a rotation may be interrupted between any two renames.
* A scan walks a tree it does not trust under a dozen limits, any of which may
  stop it half way through an admission. What it says about its own completeness
  must still be true. Files are edited while their tags are read.
* Two instances may be started at once; a terminal mode may be entered although
  the call that enters it failed.

`PROJECT.json` lists each hazard at its line with the properties that cover it.

### Components and what makes them correct

* **Queue.** Ids are unique, an asset is queued once and its mark is exact, the
  shuffle order is a permutation, navigation stays in bounds, Previous undoes
  Next, a round reaches every track, played tracks stay played.
* **Playback controls and event loop.** The latest request wins; the hint
  follows the current track through edits; late reports do no harm.
* **Audio worker.** One track at a time, each generation ends once, every load
  and seek is answered, shutdown ends it.
* **Session store.** A crash leaves the old or the new session; what is restored
  is what was last saved.
* **Decoder helper, output.** Every frame is delivered in order or the failure is
  reported; the end is only reported once the device has played everything;
  nobody waits for ever.
* **Desktop control.** A bounded lane neither blocks the player nor loses the
  newest state; a seek reaches the track it was meant for.
* **Log pipeline.** Order on disk, only the oldest lost, nothing lost unreported;
  finishing ends.
* **Leases, terminal modes.** One owner at a time, who is named to the others;
  what was entered is left.
* **Scanner, metadata cache.** Charges are exact, limits hold, nothing wanted is
  missing from a scan that says it is complete; a cached tag is that of the very
  version it is cached for; the cache file is replaced whole or not at all.
* **Browser.** One row for everything, in spite of a one-pass construction; hidden
  exactly when folded away; search results exact.

## Modules

| module | models | composed by |
| --- | --- | --- |
| `Queue` | `QueueState` | `Playback`, `SessionStore`, `MCQueue` |
| `AudioLanes` | the four lanes of `AudioRuntime` | `Playback`, `AudioWorker` |
| `Playback` | `PlaybackState`, the controls and queue edits of `AppState` | `Player` |
| `AudioWorker` | `WorkerCore`, `worker_main` | `Player` |
| `Player` | the loop of `run_terminal_session` with all of the above | `PlayerAsked`, `MCPlayer` |
| `PlayerAsked` | `Player` with a memory of the latest control | `MCPlayerAsked` |
| `Resume` | what resuming a session promises, without its steps | `SessionStore` (implements it) |
| `SessionStore` | `StateStore`, `StateSynchronizer` over several lives of the process | `MCSessionStore` |
| `Output` | `CpalOutput` and its device callback | `MCOutput` |
| `Decoder` | `HelperDecoder`: helper process, reader thread, worker | `MCDecoder` |
| `Mpris` | `MprisRuntime`, its worker and a desktop client | `MCMpris` |
| `LogPipeline` | `LogQueue`, the log worker, `RotatingWriter`, `LoggingGuard` | `MCLogPipeline` |
| `NaturalOrder` | the comparison of names and paths, the text search (pure) | `Scanner`, `Browser` |
| `MetadataCache` | `CachedMetadataReader` and `parse_in_helper` | `Scanner` |
| `Scanner` | `Scanner`, `ScanProgress` and every limit of `ScanConfig` | `Browser` |
| `Browser` | `BrowserState`: rows, folds, search | `Library` |
| `Library` | `scan_cached_from` and a session's browsing, session after session | `MCLibrary` |
| `Launch` | both leases, `TerminalGuard`, the order of `app::run` | `MCLaunch` |
| `QueueProofs` | theorems about `Queue`, lemmas on sequences and counting | `SessionStoreProofs`, `PlayerProofs` |
| `OutputProofs` | theorems about `Output` | |
| `StartupProofs` | theorems about `Launch` and `Library`: leases, terminal, metadata cache, scan | |
| `LogProofs` | theorems about `LogPipeline` | |
| `SessionStoreProofs` | theorems about `SessionStore`, its refinement of `Resume` | |
| `MprisProofs` | theorems about `Mpris` | |
| `PlayerProofs` | theorems about `Player` and `PlayerAsked`: generations, types, queue, timelines, display, worker and listener | |
| `DecoderProofs` | theorems about `Decoder` | |

`MC...` modules give constants to TLC. Operators whose comment starts with
*Mutant* are plausible bugs; no specification uses them. They are used to
confirm that each property notices the bug it is there for.

### How state and actions correspond to the code

**Queue.** Positions are 1-based. `shuffle_cursor: Option<usize>` is the number
of items up to and including the cursor, so `None` is 0. A batch is appended as
the code does it: mark every entry, undo the marks of the entries before a refused one,
check the limits, push, extend the shuffle order. Shuffling with a
seeded xorshift is a choice among all orders. A missing saved entry is `Gone`.

**Playback.** A control and the command it sends are one action, because the
loop does nothing in between; when the command lane is full the action is not
enabled, which is `Sender::send` waiting. Opening a file may fail, which sends
`LoadFailed` instead of `Play`. `ToggleMute` stands for all gain changes: they
take the same path. Durations are small numbers; `Grain` positions make a
whole microsecond, so that `decoder_position` truncates in the model as well.

**AudioWorker.** `worker_main` looks at commands, seeks, the held seek and the
track in this order. Each lane may fill just after it was looked at, so the
actions do not wait for the lanes before them. The 150 ms of `SEEK_SETTLE` are
not measured: a held seek may settle at any time, and a seek soon after a
restart is held or not. A track is `LengthOf` blocks, and its header may say
nothing (`DurationOf`). Position reports go out every `ReportInterval` blocks.

**Player.** The loop takes positions, then events, then up to `MaxBurst`
controls (the code: up to 32 desktop actions and one terminal event). Quitting
closes the lanes and joins the worker.

**SessionStore.** The queue and its edits are those of `Queue`. A write is
taken apart into the system calls of `write_bytes` (create, fill, rename), between
which the process may die or a call may fail; `leftovers` counts the temporary
files that stay behind and block later attempts. `Start` is `run` up to its first
sync, for a library and a configured limit that may differ from the last life's.
Of the playback only the current item and its position are kept. The encoding
of the file is abstracted to its content, or `Partial` when it is not all there.

**Output.** Each atomic access of `render_output` and of `play` and `stop` is a
step, so the worker and the callback interleave as the hardware lets them. Samples
are frames, gain is the step of the ramp, a tick is the time of a frame.
`unheard` is the history the properties speak of: how long the device still
plays what it has been handed. A callback reports any delay in `Delays` that is not
less. The calls are enabled as `WorkerCore` makes them: nothing is read from the
decoder while a seek settles, the drain is only looked at once the input ended.

**Decoder.** The helper sends *units* (a field the reader asks for, or one frame of
a block) into a pipe of `PipeUnits`; samples are numbered by their place in
the track, so a wrong skip shows. `quiet` measures `HELPER_NO_PROGRESS` in ticks
as `read_exact_with_progress` does. `Shutdown` kills, drops the receiver and joins, in
that order.

**Mpris.** The player is reduced to what `from_app` publishes of it: a track, a
status for everything that changes while it stays, and a count of seeks.
`emit_changes` is two steps, since either signal may fail. A method's look at the
served state and its `try_send` are one step. The pass of the loop
(`events`, `actions`, `input`) keeps the order of `run_terminal_session`.

**LogPipeline.** A file is the sequence of its bytes, and a byte is the number of
the record it belongs to, so that loss, order and records torn over two files all
show. Unlinking, renaming, truncating and creating are steps of their own; the
process may die or a call fail between any two. `phase` is `initialize_from`
(prune, open, perhaps rotate), the life, and `finish` (close, join, report). A record
that is emitted after `finish` finds no sender, which counts as a failed write and is
reported as one when it comes before the report. `nextId`, `emitted` and `stored` are history.

**NaturalOrder.** Names are sequences of bytes. The single pass of
`natural_bytes_cmp` is written by its outcome: the first pair of runs (of digits,
of anything else) that differs decides. The search is the code's
Knuth-Morris-Pratt matcher, table and all, and `ResultsExact` compares it with
containment as one would define it.

**MetadataCache, Scanner.** A media file is an inode with a version; editing it
makes another version. Tags *are* the version they were parsed from, so a tag cached
for the wrong version shows. What the cache refuses, an overlong field or anything
beyond its entries or its bytes, is as in the code; a file's tags have the same size
in every version. The scanner walks the tree in the order of the
code: read all names of a directory, sort them, inspect each, descend. `limits` is a
`ScanConfig`; a handler threads the scan's state through `Warn`, `Limit`,
`Account` and `Acquire` as the code threads `&mut self`. Sizes of assets,
entries and warnings are constants (`Charge`). `RowLimit` is what the scan reserves
for the browser.

**Browser.** `BuildRows` compares each entry with the one before it, as the code
does, and `RowsExact` says what the rows are without looking at neighbours: one
row for every folder that holds an entry, directly or not, and below it all that it
holds. `visible` is recomputed on a fold, the search on every byte.

**Library.** `scenario` says what may go wrong in a behaviour: it holds the files that
are edited, the entries that fail (to be listed, inspected or opened, or by having
become something else), and words for crashes, helpers, the cache file, the whole scan
and browsing. `MCLimits` pairs it with the limits: each limit is tried on its own, short
of what the tree needs, and each kind of trouble with ample limits.

**Launch.** A process opens a lock file by its path and locks it later; the lock is
on the file and not on the path. Every process runs through `app::run`: the lease
of its runtime directory, the lease of the root, logging and scan (`leased`), the
terminal session, the end of the logs, the leases again. `guard` is
`TerminalGuard`. Entering or leaving the alternate screen is a write of several bytes, which
may fail after it had its effect; `enable_raw_mode` is one `tcsetattr`, which changes
nothing when it fails.

## Runs

Every run checks deadlock, except `player_live`, `mpris` and `launch`, where the
program stops after quitting. Each property of a passing run has a mutant that
breaks it under the run's own configuration.

| run | question | instance |
| --- | --- | --- |
| `queue` | Do marks, shuffle order and navigation survive every sequence of edits, toggles and selections? | 4 entries over 3 assets (one aliased), up to 3 items, saved sessions with a missing and a duplicate entry |
| `player` | Do display and worker agree once nothing is in flight? Does a generation end once? Do a pause and a play hold against everything but a newer control? Do edits keep the place? | 3 tracks, 3 loads, a lane of 1, failures at every step; a listener who steers, one who edits, one who seeks, one who mutes |
| `player_live` | Is every load and seek answered, does quitting end, does the display never go back before a seek? | 1 track of 2 blocks, 2 loads, 1 seek, half-microsecond positions, a full lane of 1 |
| `asked_stop` | Does a stop hold? (it does not, see below) | bursts of 2 |
| `store` | Is what is on disk whole and recent at every instant, does a restart resume it, does an orderly end save it? | 2 entries, libraries and limits that change between lives of 2 s, crashes and failures between all system calls, 1 leftover |
| `output_stream` | Is every frame played, the end heard, a stop faded, a pause, a failure and a held seek noticed? | tracks of 3 frames, a ring and buffers of 2, a ramp of 3, two device delays, a device that fails |
| `output_cut` | Does output never cut hard? (it may, see below) | the same without faults, tracks of 4 frames |
| `decoder` | Do samples arrive exactly, is a timeout justified, does shutting down end? | tracks of 4 frames in packets of up to 3 and blocks of 2, a pipe of 2, a channel of 1, bad packets, crashes, hangs |
| `mpris` | Does a client know what is served, does a seek stay in its track, is a quit taken? | a lane of 1, tracks numbered up to 2, up to 2 seeks, signals that fail |
| `log` | Is the disk in order, is only the oldest lost, is every record accounted for, does finishing end? | 1 producer, 4 records of 1 or 2 bytes, files of 2, one to three of them from life to life, a queue of 1, partial and failed writes, crashes |
| `library` | Is a complete scan complete, are index, cache and rows exact, is a search right? | a tree of 20 paths over 3 files: a folder with tracks on either side of a folder in it, folders `9` and `09`, a symlink, a special file, a mounted directory, two playlists that differ only in case, a folder and an alias in one and a hidden entry in the other; 20 ways to run into a limit; a file of two versions, entries that fail |
| `launch` | Is there one session on the root, is the holder named, is the terminal restored? | 3 processes, two of one user, calls that fail, processes that are killed |

`store` also checks `Resumes`: `SessionStore` implements `Resume`, which
says what a listener may rely on without mentioning files, intervals or the
synchroniser.

The properties by run: `queue`: `MembershipExact`, `ShuffleOrderExact`,
`PreviousUndoesNext`, `RoundVisitsEveryTrack`, `PlayedPrefixStable`; `player`:
`QuietAgreement`, `EndedOnce`, `ListenerObeyed`, `EditsKeepPlace`; `player_live`:
`TimelineMonotone`, `Answered`, `QuitEnds`; `store`: `FilesRecent`, `Resumes`,
`QuitSaves`; `output_stream`: `FramesConserved`, `FinishedIsHeard`, `StopsFaded`,
`StreamSettles`, `HeldSeekSilent`; `decoder`: `SamplesExact`, `TimeoutJustified`,
`HelperSettles`; `mpris`: `ClientCurrent`, `SeekInNamedTrack`, `QuitTaken`; `log`:
`LogsInOrder`, `RecordsAccounted`, `OldestLost`, `FinishEnds`; `library`:
`NothingLostSilently`, `IndexExact`, `CacheTruthful`, `RowsExact`,
`SelectionShown`, `ResultsExact`, `CacheReplacedWhole`; `launch`: `OneWriter`,
`TerminalRestored`, `RefusalNamesHolder`. Each is stated in words above its
definition.

### Bounds

* `MaxItemId`, `MaxQueueGen`, `MaxPlaybackGen` stand for `u64::MAX`. The code
  refuses edits and loads there, so do the models; the small values make that
  case happen. `GenerationsLeft` excludes only the state in which no load is
  possible any more.
* `MaxSeeks` bounds the seeks of one behaviour. Two seeks are enough for one to
  replace, overtake or settle after another.
* `CommandCapacity` 1 instead of 32: the lane is full and controls wait. With two
  commands in flight the instances of `player` no longer fit the time; the
  theorems about `Player` hold for every capacity.
* `Habits` are the kinds of control that one listener or another gives; a
  behaviour has one listener. The product of all kinds is out of reach.
* `FadeLength` 3 is not a multiple of `BufferFrames` 2: fades end inside a buffer
  and last longer than one. `RingFrames` 2 is less than a track, so the ring runs
  full and empty.
* `ErrorLimit` 1: one broken packet is tolerated and a row of two is not.
  `Patience` 2: the reader is quiet for a tick without timing out. `PipeUnits` 2
  and `Messages` 1 block the helper and the reader.
* `RequestCapacity` 1: the lane is full after one action and a pass of the loop
  takes as many. `MaxRevision` 2: the slot may lose a seek between two signals.
* `MaxLeftovers` 1 with `CreateAttempts` 1: a leftover makes the next write fail.
* `MaxTime` 2 with intervals of 1 and 2: both intervals pass within a life.
* `MaxRecords`, `MaxEmitted` 4 and files of 2 bytes: three files are full and a
  fourth record rotates the oldest away. `MaxPiece` 3 is more than a record holds.
* `MaxLogFiles` 3 instead of 5 (`MAX_LOG_FILES`): an archive above, one between, the current file.
* `MaxVersion` 1: an edit between taking a file's identity and comparing it.
  `MaxCached` 2 and `MaxTagBytes` 2: two versions of one file fill the cache, and the
  first file leaves too few bytes for the second; the third has a field too long.
* Every limit of `ScanConfig` is too small for the tree in some scan, the indexed bytes
  at three places of the walk.
* `MaxQuery` 3 over two characters against the text `aaaB`: a needle that falls
  back to a shorter prefix of itself. Up to eight entries are searched, more than two
  of which match most needles; `MaxResults` 2 cuts them off.
* Three queue items are the least for which Next, Previous, removal and shuffle
  order are all distinct; two assets sharing a file show aliasing.
* `MaxBurst` 2, in `asked_stop`, lets a second control see a display that is behind
  both lanes.

### Fairness

`FairSpec` asks for weak fairness of the event loop's own steps and of each
kind of worker step. The loop polls with a timeout, the worker polls every
5 ms while it has a track, a held seek has a due time, the decoder helper
answers or is killed after three seconds, and the device consumes what it is
given. Nothing is asked of the user, and a worker without a track may ignore
the seek lane, as it sleeps on the command lane.

In `Output` the device calls back and time passes; the worker finishes what it
is in the middle of. Strong fairness is asked of `OutputFailed` and `Tick`: the
worker looks at a failure after every command, so commands cannot keep it from
doing so, and a clock is not held up by callbacks. In `Decoder` processes and
threads that can run do; that the worker polls is assumed only by
`HelperSettles` itself, because a paused worker does not. In `Mpris` the loop
and the worker poll with timeouts; nothing is asked of the client. In
`LogPipeline` the log worker runs while the process does, and the thread that joins it
runs once it has ended; nothing is asked of producers or of the disk, whose calls
may fail every time.

### What the runs showed

`asked_stop` finds a real disagreement. `select_stopped` (`playback.rs:92`) keeps
the generation when the track it selects is the current one, while `select`
resets `request` to `Play`. After *Stop*, then *Previous* on the first track
(or *Next* in a queue of one with repeat-all), with the worker not yet having
received the stop, the finish of the track that is still playing is taken for a
wanted one and the next track is loaded, although stop is the latest request.
`app/tests.rs:1115` states the contrary for the case without the second key.
The same path leaves the shuffle cursor away from the current track, which is
why `EditsKeepPlace` speaks of states where `CursorOnCurrent` holds.

`output_cut` finds another, of a few instructions. A callback that found
nothing audible stores `silent` (`output.rs:557`), possibly after `play` has cleared it
for the next start. If a stop then comes while the first audible callback is about
to render, `await_silence` believes the stale flag and the stream ends with a
fade-in cut at its top. `docs/architecture.md:63` says "Output never cuts hard".
`StopsFaded`, which the code keeps, says the weaker thing: when the backend is
paused on the flag the ramp is down.

## Proofs

`QueueProofs` proves for all libraries, limits, playlists and saved sessions
satisfying `QueueAssumption` (finite limits of at least one, batches and
sessions are sequences of entries):

* `QueueInvariant`: `QueueSpec => []QueueInv`
* `QueueTypesHold`, `IdsStayUnique`, `MembershipStaysExact`,
  `ShuffleOrderStaysExact`, `CursorStaysInOrder`: the properties of run `queue`.

None of them is inductive alone. `QueueInv` conjoins `ItemsOK` (ids distinct
and below `nextItemId`, assets distinct, marks exact), `OrderOK` (the order
lists exactly the ids, the cursor is within it), `SelectionOK` and the ranges.
An appended id is fresh because ids are below `nextItemId`; the order is again
a permutation because the ids were distinct and fresh; the cursor is in range
because the order is as long as the queue. One lemma per operation on the shuffle
order (`RefreshEstablishes`, `ExtendEstablishes`, `RemoveEstablishes`,
`SelectCurrentEstablishes`) and one per action carry the induction step.
The module begins with facts about `RemoveAt`, prefixes, concatenations and
bijections of distinct elements.

About navigation it proves

* `PreviousAlwaysUndoesNext` and `RoundsVisitEveryTrack`: the other invariants of
  run `queue`; `PlayedStaysPlayed`: its action property.

Both invariants come from `NextFacts`: in the play order (the queue, or the
shuffle order) Next goes from place `n` to `n + 1`, or from the last to the first,
and since the order lists every id once a place is a position and back
(`PlacesFacts`). A round is a recursive function; `RoundFacts` follows
it place by place with `LeastElement`, the least counterexample being the
induction over numbers that the provers can do. That what has been
played stays needs that an append only reorders what lies behind the cursor
(`PrefixOfExtended`) and that a removal takes out one place, before the cursor or
behind it (`PrefixOfRemoved`).

`OutputProofs` proves for rings, buffers, ramps, tracks and pause delays of any
size and any set of device delays satisfying `OutputAssumption` (sizes of at
least one), with and without device errors:

* `OutputInvariant`: `Spec => []OutputInv`
* `OutputTypesHold`, `FramesStayConserved`, `FinishedStaysHeard`: the invariants
  of run `output_stream`; `StopsStayFaded`: its action property.

That a finished track has been heard needs the rest of `OutputInv`. `Draining`
says that the published delay and any drain deadline cover what the device has
still to play, and that a deadline only exists when all is consumed. A
callback that would make it stale has frames to publish, so by `Counted` not
all was consumed before. Pausing the backend, which holds the device up while
the deadline runs on, is excluded by `Running`: an output that plays has no
pause that is due. `StopsStayFaded` follows from `SilentIsDown`: `silent` is
only set while the ramp is down and no callback renders.

`StartupProofs` proves for any number of processes, runtime directories and
users satisfying `LaunchAssumption`:

* `LeasesHeld`: `Spec => []LeaseInv`
* `OneWriterAlways`, `TerminalAlwaysRestored`: the invariants of run `launch`;
  `RefusalNames`: its action property.

A process that has a session holds the file the root's path leads to, and a file
has one owner. That this is *one* file needs the rest of `LeaseInv`: paths are
never made to lead elsewhere (`Separate`), so what was opened before is still
what the path leads to when it is locked (`Placed`), and what is held is owned
(`Holds`). `Recorded` says that a file which a process has recorded itself in
names it for as long as it owns it; that makes refusals right. `TerminalInv` keeps
every entered mode within the guard, and what the guard could not leave within
`stuck`.

Of the same process's library it proves, for any tree of files, versions, limits,
charges, cache sizes and failures satisfying `CacheAssumption` and `ScanAssumption`
(sizes are natural numbers, the parent of a path is a directory or the root, the
parents form a tree, a playlist is named by a path of two components, and what is too
long for the cache is too long for the scan):

* `CacheHolds`: `LibrarySpec => []CacheInv`; `ScanHolds`: `LibrarySpec => []ScanInv`
* `CacheStaysTruthful`, `IndexStaysExact`, `NothingIsLostSilently`: invariants of run
  `library`; `CacheAlwaysReplacedWhole`: its action property.

`CacheInv` adds to `CacheTruthful` what a helper has read so far: tags that are no
older than the identity taken before the parse and no newer than the file is now. When
the identity is the same after the parse, they are the tags of that version.

That the index is exact rests on `Sound`: what a scan has charged pays for the assets,
entries, playlists and warnings it holds and for what it still owes within a step, and each
playlist counts its entries (`Filed`). Within a step the two differ, so every helper
that charges, files or warns has a lemma of its own. No path is admitted twice because the walk meets every
path once: `FramesOK` says that the directories on the stack are distinct and that what
waits in each are children of it, `SeenOnce` that nothing waits which the walk has met,
and that `Node[n].parent` is a function does the rest. Nothing is lost silently
because of `NothingMissed`: while a scan is clean, a wanted file is admitted,
being read, or it or a directory above it waits on the stack or has a warning. A step
that takes a name from the stack puts its children there, admits it, warns
about it, or makes the scan something other than clean (`Dealt`); `ReadThrough` says
that a directory is only inspected when all of it was read. When the stack is empty
only admission and warnings remain. `Above` follows the parents; that it is defined for
every path is the well-foundedness of the tree.

`LogProofs` proves for any number of producers, any sizes of
records, marks, queue and files and any file counts satisfying `LogAssumption` (a
record fits a file), with failing writes and crashes:

* `AccountHolds`: `Spec => []AccountInv`; `OrderHolds`: `Spec => []OrderInv`;
  `LossHolds`: `Spec => []LossInv`
* `RecordsStayAccounted`, `LogsStayInOrder`: the invariants of run `log`;
  `RotationLosesOldest`: its action property.

The account needs that a record is in hand exactly while it is written (`InHand`)
and that the worker only ends an empty, closed queue (`Ends`): then what is
reported is exact. The order needs `Below` (all on disk was queued before all that
is not) for what is appended, and `Torn` for what is appended in parts: a record of
which a part is written leaves room for its rest, `bytesWritten + left` does not
change between its parts, and so no rotation becomes due there. An interrupted
rotation needs no case of its own: each of its steps moves, empties or deletes
one file, and that keeps any order (`Thinned`, `Moved`). What is lost depends on
where the holes are (`Holes`): the archive at which a rotation is has been moved
up or deleted before, except for the highest, and above the highest there is none
(`Pruned`). That something stays needs that the file moved next has something in
it (`Filled`, and for the current file `Counted`).

`MprisProofs` proves for any capacity of the action lane, any tracks and any
number of seeks satisfying `MprisAssumption`, with and without failing signals:

* `MprisInvariant`: `Spec => []MprisInv`
* `ClientStaysCurrent`: the invariant of run `mpris`; `SeekStaysInTrack`: its
  action property.

That a client is current between signals is not inductive: `Told` says for every
step of the worker how far the client is with the state that is served, so that
the signals still to come make up the difference. `LastServed` says that
after a stop the last state of the session is in the slot or is served, and that
the worker ends only with the latter, however many states the slot has lost.

`PlayerProofs` proves for queues, lanes, rings, tracks and
bursts of any size, whatever the listener does and whatever fails:

* `EndHolds`: `Spec => []EndInv`; `PlayerTypesHold`: `Spec => []TypesInv`
* `GenerationsEndOnce`, `DisplayAndWorkerAgree`, `ListenerIsObeyed`: the invariants
  `EndedOnce`, `QuietAgreement` and `ListenerObeyed` of run `player`
* `TimelineNeverBack`: the action property of run `player_live`;
  `QueueSoundUnderPlayback`: the invariants of run `queue`, now with loads, reports
  and edits interleaved.

`PlayerAssumption` says that a header gives a time or nothing.

That a generation ends once relates the event loop and the worker, which share
only the lanes. `LoadsNewer` joins them: every load that waits in the command lane
is newer than the loads before it, than the track the worker has and than every
event it has sent. So a load never brings back a generation that has ended. It is
kept because the event loop sends a load only with the generation after the one on
display, which none is ahead of (`Generations`); all controls, edits and
events come down to that (`Sends`), and all steps of the worker to keeping
or dropping one generation with at most one event of it (`Holds`).

The types reduce every step to one of a few shapes: a control starts a track, asks
something of it, seeks in it, mutes it, leaves it, or changes nothing of it
(`Moves`); an event is dropped, tells of the track or ends it (`Takes`); the worker
continues, announces, drops, seeks or obeys (`Works`). All that follows is about
these shapes.

Display and worker agree only when nothing is in flight, so `QuietAgreement` is far
from inductive. `Agreement` says for each difference what is on its way to put it
right. `Stays(h)` names the generation that the worker will have once all commands
are obeyed; it is that of the display (`OneStays`), which shows it (`StaysShown`),
and a track that is shown is one the worker has, gets, or tells the end of (`Told`).
Of the commands that set the gain or the pause, the last is what was asked for
(`GainFollows`, `PauseFollows`), and a report that shows a pause wrongly has a
command or a report behind it that corrects it (`DisplayFollows`). A seek's target
is in the lane, held back, where the decoder starts, or told of (`SeeksFollow`);
that the decoder starts just there needs that a track which was sought has had its
header read (`DurationKnown`). With both lanes empty nothing is left but agreement.
The listener is obeyed because of `Obeyed`: after a pause that took effect either
the track on display is asked to pause, or nothing more comes of its generation
(`Dead`), so that no finish can start the next one playing.

* `EditsAlwaysKeepPlace`: the action property `EditsKeepPlace` of run `player`.

An edit may take away the current track while the worker still plays it, and then only
the hint and the cursor tell where it was. `PlaceInv` says what the hint is worth:
it is the row of the current track for as long as that is queued, over every
control, edit and event. With the cursor on the track (`Placed`), what Previous reaches
is the first `Before` tracks of the order of play and what Next reaches is all the
queue but those and the track, so it is enough to follow one split of that order through
an append and a removal.

`DecoderProofs` proves for tracks, packets, blocks, pipes and channels of any size
satisfying `DecoderAssumption`, with packets that are lost, helpers that fail, die
or hang at any point, and workers that poll or do not:

* `DecoderTypes`: `Spec => []TypeOK`; `PatienceHolds`: `Spec => []PatienceInv`;
  `SamplesHold`: `Spec => []SamplesInv`
* `TimeoutsAreJustified`, `SamplesStayExact`: the safety properties of run `decoder`.

Between the helper's decoder and the worker the frames are spread over the sink and
the pipe (`Stream`), the block that the reader puts together, the message it sends and
the channel. `Chain` says that each of these holds the frames from one position to
the next but for the lost ones, from what the worker has to `Frontier`, what the helper
has handed over. A block that is cut anywhere goes on because its length tells
how many frames follow (`Framed`). An end is only told of a whole track and nothing
comes behind it (`Ending`); that the first frame is the one asked for, however
far before it the seek landed, needs that its target is remembered until a frame
was handed over (`Sought`). Once the helper is killed nothing more is received
(`Killed`). The timeout is justified by `Slow`: while the pipe is empty the reader
has not been waiting longer than the helper has been idle, and a helper that is
not hung is never idle as long as the patience is.

`SessionStoreProofs` proves for every library, limit, saved queue and interval
satisfying `StoreAssumption`, over any number of lives, with crashes between any two
system calls and calls that fail:

* `StoreInvariant`: `Spec => []StoreInv`
* `FilesStayRecent`: the invariant of run `store`; `QuitAlwaysSaves`: its action
  property; `StoreRefinesResume`: `Spec => Resumes`, step by step.

`sync` compares identities and never reads a file back. `Known` says what it may
conclude from an identity: the file holds the session that had it, and while the
queue is at the same generation, the queue of this moment, because every edit
takes a new generation. `Writing` says that the data of a write is the session of
this moment until its rename, as the loop does nothing else meanwhile. The
refinement maps each system call to a stutter but the rename (or the unlink of an
emptied session), which is `Resume`'s save, and `Start`, where `RestorableFacts`
shows that what is restored is all that is left, once each and in order.
`StoreAssumption` asks that a queue of the largest size may be numbered
(`MaxItems < MaxItemId`, 10000 and `u64::MAX` in the code): without it
restoring a session could be refused for want of ids, which `Resume` does not
allow for.

Model-checked only: `RowsExact`, `SelectionShown` and `ResultsExact` (the order of
names and the matcher are folds over data, and the rows follow that order). All
liveness stays with TLC, as it is with `ENABLED` out of the prover's reach.

## Plan

1. *(done)* `Queue`, `Playback`, `AudioLanes`, `AudioWorker`, `Player`,
   `PlayerAsked` with their runs; `QueueProofs`, `PlayerProofs`.
2. *(done)* `SessionStore` and `Resume`; `SessionStoreProofs`.
3. *(done)* `Decoder` and `Output`; `OutputProofs`, `DecoderProofs`.
4. *(done)* `Mpris`, `LogPipeline`; `LogProofs`, `MprisProofs`.
5. *(done)* `Launch` with the leases and the terminal modes; `StartupProofs`.
6. *(done)* `MetadataCache`, `Scanner`, `Browser`, `Library`; `StartupProofs`.
7. Left: that the blocks `AudioWorker` abstracts decoder and output to are what
   `Decoder` and `Output` promise.
8. Left, proofs: the browser's rows; an abstract transport implemented by `Player`.

## Not modelled

* *User interface* (`ui/*`): drawing from the state, no state of the player's own.
* *Spectrum analyser* (`audio/spectrum.rs`): floating-point display data.
* *Verified file opening* (`audio/file.rs`, `paths.rs`): system calls on descriptors;
  an open succeeds or fails.
* *Input mapping*: a fixed table from keys to the controls of `Playback`.
* *Configuration, command line, init*: read once, no concurrency; the order of
  `app::run` is part of `Launch`.
* *Tag parsing* and *decoding*: done by libraries in helper processes; the life of
  either helper is modelled, what it computes is not.
* *The diagnostics reporter* of the event loop and *resizing*: they only log and
  redraw.
* *Ownership and mode checks*, *encodings* and *resource limits of helpers*: calls
  that may fail.

`PROJECT.json` lists each component with its status and reason.
