------------------------------- MODULE Browser -------------------------------
(***************************************************************************)
(* The library browser and its search, src/src/app/browser.rs, over the    *)
(* index that a scan has left.  Rows, entries and playlists are numbered   *)
(* from 1; selections are positions from 0, as in the code.                *)
(***************************************************************************)
EXTENDS Scanner

CONSTANTS
  Stem, TagText,         \* what the search compares besides the path
  Characters,            \* the bytes that are typed
  MaxQuery, MaxResults   \* max_query_bytes and max_results

ASSUME BrowserAssumption == MaxQuery \in Nat /\ MaxResults \in Nat \ {0}

VARIABLE browser         \* BrowserState

-----------------------------------------------------------------------------
(* `finish': the index is sorted by path, which keeps a folder together. *)

SortedEntries == SortSeq(entries, LAMBDA a, b : PathBefore[a.node, b.node])

SortedPlaylists ==
  SetToSortSeq(DOMAIN playlists, LAMBDA a, b : PathBefore[PlaylistPath(a), PlaylistPath(b)])

Index == [entries |-> SortedEntries, playlists |-> SortedPlaylists]

EntryPath(index, k) == Path[index.entries[k].node]
EntryList(index, k) == Node[index.entries[k].node].list

-----------------------------------------------------------------------------
(* `build_browser_rows' *)

Heading(kind) == [kind |-> kind, indent |-> 0]
PlaylistRow(l) == [kind |-> "playlist", playlist |-> l, indent |-> 1]
TrackRow(k, indent) == [kind |-> "track", entry |-> k, indent |-> indent]
FolderRow(k, component, indent) ==
  [kind |-> "folder", entry |-> k, component |-> component, indent |-> indent,
   collapsed |-> FALSE]

FolderCount(path, skipped) == Len(path) - skipped - 1

(* Mutant: all folders of the entry are shared, or none. *)
ComparesWhole(p, q, skipped) ==
  IF Front(p) = Front(q) THEN FolderCount(q, skipped) ELSE 0

(* How many folders, outermost first, two paths share. *)
CommonFolders(p, q, skipped) ==
  LET limit == CHOOSE n \in {FolderCount(p, skipped), FolderCount(q, skipped)} :
                 n <= FolderCount(p, skipped) /\ n <= FolderCount(q, skipped)
      differ == {d \in 1 .. limit : p[skipped + d] # q[skipped + d]}
  IN  IF differ = {} THEN limit ELSE (CHOOSE d \in differ : \A c \in differ : d <= c) - 1

(* `append_tree_entry': the folders that the entry before it is not in, then
   the entry; `previous' is 0 at the start of a tree. *)
TreeRows(index, k, previous, skipped) ==
  LET path == EntryPath(index, k)
      folders == FolderCount(path, skipped)
      common == IF previous = 0 THEN 0
                ELSE CommonFolders(EntryPath(index, previous), path, skipped)
  IN  [d \in 1 .. folders - common |->
         FolderRow(k, skipped + common + d, skipped + common + d - 1)]
      \o <<TrackRow(k, skipped + folders)>>

(* The first entry from `start' on that is not of the tree. *)
TreeEnd(index, start, list) ==
  LET others == {k \in start .. Len(index.entries) : EntryList(index, k) # list}
  IN  IF others = {} THEN Len(index.entries) + 1
      ELSE CHOOSE k \in others : \A j \in others : k <= j

Tree(index, start, list, skipped) ==
  FlattenSeq([i \in 1 .. TreeEnd(index, start, list) - start |->
                TreeRows(index, start + i - 1, IF i = 1 THEN 0 ELSE start + i - 2, skipped)])

BuildRows(index) ==
  LET cursor[i \in 0 .. Len(index.playlists)] ==
        IF i = 0 THEN TreeEnd(index, 1, NoPlaylist)
        ELSE TreeEnd(index, cursor[i - 1], index.playlists[i])
      list(i) == <<PlaylistRow(index.playlists[i])>>
                 \o Tree(index, cursor[i - 1], index.playlists[i], 2)
  IN  <<Heading("library")>> \o Tree(index, 1, NoPlaylist, 1)
      \o <<Heading("playlists")>> \o FlattenSeq([i \in DOMAIN index.playlists |-> list(i)])

(* `browser_reservation' *)
RowLimit == counters.encountered + Cardinality(DOMAIN playlists) + 2

(* `playlist_entries' *)
PlaylistEntries(rows, position) ==
  LET after == SubSeq(rows, position + 1, Len(rows))
      next == SelectInSeq(after, LAMBDA row : row.kind = "playlist")
      own == IF next = 0 THEN after ELSE SubSeq(after, 1, next - 1)
      tracks == SelectSeq(own, LAMBDA row : row.kind = "track")
  IN  [i \in DOMAIN tracks |-> tracks[i].entry]

-----------------------------------------------------------------------------
(* Mutant: a collapsed folder within a collapsed one takes its place. *)
ForgetsOuter(rows) ==
  FoldLeft(LAMBDA seen, position :
             LET row == rows[position]
                 hidden == seen.within # -1 /\ row.indent > seen.within
             IN  [shown |-> IF hidden THEN seen.shown ELSE Append(seen.shown, position),
                  within |-> IF row.kind = "folder" /\ row.collapsed THEN row.indent
                             ELSE IF hidden THEN seen.within ELSE -1],
           [shown |-> <<>>, within |-> -1], [i \in DOMAIN rows |-> i]).shown

(* `rebuild_visible_browser_rows': what is indented below a collapsed folder is
   passed over. *)
VisibleRows(rows) ==
  FoldLeft(LAMBDA seen, position :
             LET row == rows[position] IN
             IF seen.within # -1 /\ row.indent > seen.within THEN seen
             ELSE [shown |-> Append(seen.shown, position),
                   within |-> IF row.kind = "folder" /\ row.collapsed THEN row.indent ELSE -1],
           [shown |-> <<>>, within |-> -1], [i \in DOMAIN rows |-> i]).shown

-----------------------------------------------------------------------------
(* The search: an entry is found by its stem, its path or its tags. *)

PathText == [n \in Nodes |-> Joined(Path[n])]

SearchFields(k) ==
  LET entry == browser.index.entries[k] IN
  {Stem[entry.node], PathText[entry.node]}
    \cup (IF assets[entry.asset].tags = NoTags THEN {} ELSE {TagText[assets[entry.asset].inode]})

Matches(query) ==
  SelectSeq([k \in DOMAIN browser.index.entries |-> k],
            LAMBDA k : \E field \in SearchFields(k) : ContainsText(field, query))

(* `rebuild_search' *)
Searched(query) ==
  LET found == IF query = <<>> THEN <<>> ELSE Matches(query) IN
  [browser EXCEPT !.query = query, !.selection = 0,
                  !.results = SubSeq(found, 1, IF Len(found) > MaxResults THEN MaxResults
                                               ELSE Len(found))]

ShowsResults == browser.active /\ browser.query # <<>>
RowCount == IF ShowsResults THEN Len(browser.results) ELSE Len(browser.visible)

SelectedRow ==
  IF ShowsResults THEN TrackRow(browser.results[browser.selection + 1], 0)
  ELSE browser.rows[browser.visible[browser.selection + 1]]

-----------------------------------------------------------------------------
(* The operations. *)

NoBrowser == [rows |-> <<>>]

(* `BrowserState::new', for the index that the scan has left. *)
OpenBrowser ==
  LET rows == BuildRows(Index)
      track == SelectInSeq(rows, LAMBDA row : row.kind = "track")
  IN  browser' =
        [index |-> Index, rows |-> rows, visible |-> [i \in DOMAIN rows |-> i],
         selection |-> IF track = 0 THEN 0 ELSE track - 1,
         active |-> FALSE, query |-> <<>>, results |-> <<>>, saved |-> 0]

(* `move_index' *)
MoveBrowserSelection(next) ==
  browser' = [browser EXCEPT !.selection =
    IF RowCount = 0 THEN 0
    ELSE IF next THEN IF @ + 1 < RowCount THEN @ + 1 ELSE RowCount - 1
    ELSE IF @ > 0 THEN @ - 1 ELSE 0]

MoveToEdge(last) ==
  /\ ~browser.active
  /\ browser' = [browser EXCEPT !.selection = IF last THEN RowCount - 1 ELSE 0]

ToggleFolder ==
  /\ ~browser.active
  /\ SelectedRow.kind = "folder"
  /\ LET position == browser.visible[browser.selection + 1]
         rows == [browser.rows EXCEPT ![position].collapsed = ~@]
     IN  browser' = [browser EXCEPT !.rows = rows, !.visible = VisibleRows(rows)]

OpenSearch ==
  /\ ~browser.active
  /\ browser' = [browser EXCEPT !.active = TRUE, !.saved = browser.selection,
                                !.query = <<>>, !.results = <<>>, !.selection = 0]

PushQuery ==
  /\ browser.active
  /\ Len(browser.query) < MaxQuery
  /\ \E c \in Characters : browser' = Searched(Append(browser.query, c))

PopQuery ==
  /\ browser.active /\ browser.query # <<>>
  /\ browser' = Searched(Front(browser.query))

ClearQuery == browser.active /\ browser' = Searched(<<>>)

(* Esc, or Enter, which also appends the selected track to the queue. *)
CloseSearch ==
  /\ browser.active
  /\ browser' = [browser EXCEPT
       !.active = FALSE, !.query = <<>>, !.results = <<>>,
       !.selection = IF browser.saved < Len(browser.visible) THEN browser.saved
                     ELSE Len(browser.visible) - 1]

Browse ==
  \/ \E next \in BOOLEAN : MoveBrowserSelection(next) \/ MoveToEdge(next)
  \/ ToggleFolder \/ OpenSearch \/ PushQuery \/ PopQuery \/ ClearQuery \/ CloseSearch

-----------------------------------------------------------------------------
(* The properties, while there is a browser. *)
Browsing == browser # NoBrowser

RowPositions(kind) == {i \in DOMAIN browser.rows : browser.rows[i].kind = kind}

Folder(i) == SubSeq(EntryPath(browser.index, browser.rows[i].entry), 1, browser.rows[i].component)

RowPath(i) ==
  IF browser.rows[i].kind = "folder" THEN Folder(i)
  ELSE EntryPath(browser.index, browser.rows[i].entry)

(* The rows of a folder and of what is in it, at any depth. *)
RowsWithin(i) ==
  {j \in RowPositions("folder") \cup RowPositions("track") : IsPrefix(Folder(i), RowPath(j))}

(* The folders that a path is in, below `library' or its playlist. *)
FoldersAbove ==
  [n \in Nodes |->
    LET skipped == IF Node[n].list = NoPlaylist THEN 1 ELSE 2 IN
    {SubSeq(Path[n], 1, d) : d \in skipped + 1 .. Len(Path[n]) - 1}]

(* Every entry and every playlist of the index has one row.  Every folder with an
   entry somewhere in it has one, although the rows are built from neighbouring
   entries only: what is in the folder follows it, all of it and nothing else.  A
   playlist's row queues exactly the playlist, and the rows fit what was reserved
   for them. *)
RowsExact ==
  Browsing =>
    /\ \A k \in DOMAIN entries :
         Cardinality({i \in RowPositions("track") :
                        browser.index.entries[browser.rows[i].entry] = entries[k]}) = 1
    /\ {Folder(i) : i \in RowPositions("folder")} =
         UNION {FoldersAbove[entries[k].node] : k \in DOMAIN entries}
    /\ \A i \in RowPositions("folder") :
         LET within == RowsWithin(i) IN within = i .. i + Cardinality(within) - 1
    /\ Cardinality(RowPositions("playlist")) = Cardinality(DOMAIN playlists)
    /\ \A i \in RowPositions("playlist") :
         LET queued == PlaylistEntries(browser.rows, i) IN
         /\ \A k \in DOMAIN queued :
              EntryList(browser.index, queued[k]) = browser.rows[i].playlist
         /\ Len(queued) = playlists[browser.rows[i].playlist]
    /\ Len(browser.rows) <= RowLimit

(* A row is hidden exactly while a folder above it is collapsed, and the selection
   is on a row, or on none where there is none. *)
Collapsed == {i \in RowPositions("folder") : browser.rows[i].collapsed}

SelectionShown ==
  Browsing =>
    /\ ToSet(browser.visible) =
         DOMAIN browser.rows \ UNION {RowsWithin(i) \ {i} : i \in Collapsed}
    /\ browser.selection < RowCount \/ (RowCount = 0 /\ browser.selection = 0)

(* The results are the first entries, in order, with a field that contains what has
   been typed, whatever its case and however it repeats itself. *)
IsWithin(needle, field) ==
  \E i \in 0 .. Len(field) - Len(needle) :
    \A j \in DOMAIN needle : IsSame(needle[j], field[i + j])

ResultsExact ==
  Browsing =>
    LET found == {k \in DOMAIN browser.index.entries :
                    browser.query # <<>> /\ \E f \in SearchFields(k) : IsWithin(browser.query, f)}
        first == {k \in found : Cardinality({j \in found : j < k}) < MaxResults}
    IN  browser.results = SetToSortSeq(first, <)

=============================================================================
