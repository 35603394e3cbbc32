------------------------------ MODULE MCLibrary ------------------------------
(* A small library for TLC.  Below `library' a folder 9 with tracks on either side
   of a folder within it, a folder 09 that the order of names all but confuses
   with it, a symlink to another file, a special file and a mounted directory;
   below `playlists' two whose names differ only in case, one of them with a
   folder and an alias of the first file in it, the other with a hidden entry.

     library    9    a  B/1  c          playlists    M    d/1  2
                09   b  x                            m    .1
                10   f  u/s                                            *)
EXTENDS Library

CONSTANTS
  lib, sub, one, nested, deep, three, twin, mid, text, two, fifo, usb, stick,
  lists, upper, disc, alias, again, lower, hit,
  i1, i2, i3, p, q

Plain == [parent |-> lib, kind |-> "file", target |-> "none", audio |-> TRUE, hidden |-> FALSE,
          media |-> TRUE, readme |-> FALSE, mounted |-> FALSE, list |-> NoPlaylist,
          inode |-> i1, name |-> <<97>>, bytes |-> 1]
Directory == [Plain EXCEPT !.kind = "directory", !.audio = FALSE]

MCNode ==
  (lib :> [Directory EXCEPT !.parent = Root, !.name = <<108>>])
  @@ (sub :> [Directory EXCEPT !.name = <<57>>])
  @@ (one :> [Plain EXCEPT !.parent = sub])
  @@ (nested :> [Directory EXCEPT !.parent = sub, !.name = <<66>>])
  @@ (deep :> [Plain EXCEPT !.parent = nested, !.inode = i3, !.name = <<49>>])
  @@ (three :> [Plain EXCEPT !.parent = sub, !.name = <<99>>])
  @@ (twin :> [Directory EXCEPT !.name = <<48, 57>>])
  @@ (mid :> [Plain EXCEPT !.parent = twin, !.inode = i2, !.name = <<98>>])
  @@ (text :> [Plain EXCEPT !.parent = twin, !.audio = FALSE, !.name = <<120>>])
  @@ (two :> [Plain EXCEPT !.kind = "symlink", !.target = "file", !.inode = i2, !.name = <<49, 48>>])
  @@ (fifo :> [Plain EXCEPT !.kind = "special", !.audio = FALSE, !.name = <<102>>])
  @@ (usb :> [Directory EXCEPT !.mounted = TRUE, !.name = <<117>>])
  @@ (stick :> [Plain EXCEPT !.parent = usb, !.name = <<115>>])
  @@ (lists :> [Directory EXCEPT !.parent = Root, !.name = <<112>>])
  @@ (upper :> [Directory EXCEPT !.parent = lists, !.list = p, !.name = <<77>>])
  @@ (disc :> [Directory EXCEPT !.parent = upper, !.list = p, !.name = <<100>>])
  @@ (alias :> [Plain EXCEPT !.parent = disc, !.list = p, !.name = <<49>>, !.bytes = 2])
  @@ (again :> [Plain EXCEPT !.parent = upper, !.list = p, !.inode = i2, !.name = <<50>>])
  @@ (lower :> [Directory EXCEPT !.parent = lists, !.list = q, !.name = <<109>>])
  @@ (hit :> [Plain EXCEPT !.parent = lower, !.list = q, !.inode = i2, !.name = <<49>>,
                           !.hidden = TRUE])

MCTagBytes == (i1 :> 1) @@ (i2 :> 2) @@ (i3 :> 1)
MCCharge == [asset |-> 1, entry |-> 1, playlist |-> 1, warning |-> 1]
MCStem == [n \in Nodes |-> Node[n].name]
MCTagText == [i \in Inodes |-> <<97, 97, 97, 66>>]

Ample == [files |-> 9, entries |-> 20, depth |-> 3, playlists |-> 2, perPlaylist |-> 2,
          symlinks |-> 1, parses |-> 9, path |-> 2, paths |-> 21, metadataBytes |-> 9,
          indexBytes |-> 40, warningBytes |-> 40, openFiles |-> 11, crossMounts |-> FALSE,
          followFiles |-> TRUE, ignoreHidden |-> TRUE]
Shown == [Ample EXCEPT !.ignoreHidden = FALSE]
Crossing == [Ample EXCEPT !.crossMounts = TRUE]

MCLimits ==
  {[Ample EXCEPT !.files = 6], [Ample EXCEPT !.entries = 18], [Ample EXCEPT !.entries = 5],
   [Ample EXCEPT !.playlists = 1], [Ample EXCEPT !.perPlaylist = 1],
   [Ample EXCEPT !.symlinks = 0], [Ample EXCEPT !.parses = 1], [Ample EXCEPT !.path = 1],
   [Ample EXCEPT !.paths = 19], [Ample EXCEPT !.paths = 6], [Ample EXCEPT !.metadataBytes = 0],
   [Ample EXCEPT !.indexBytes = 5], [Ample EXCEPT !.indexBytes = 9],
   [Ample EXCEPT !.indexBytes = 12],
   [Ample EXCEPT !.openFiles = 6], [Ample EXCEPT !.openFiles = 10],
   [Ample EXCEPT !.warningBytes = 0, !.followFiles = FALSE],
   [Ample EXCEPT !.followFiles = FALSE], [Ample EXCEPT !.depth = 1],
   [Ample EXCEPT !.depth = 2], Crossing} \X {{}}
  \cup {Ample} \X {{i1, "crash"}, {"helper", "slow"}, {"cache"}, {"scan"},
                    {sub, one}, {usb, two}, {upper, alias}}
  \cup {<<Shown, {"browse"}>>}

=============================================================================
