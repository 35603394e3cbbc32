SPECIFICATION LibrarySpec
CONSTANTS
  lib = lib
  sub = sub
  one = one
  nested = nested
  deep = deep
  three = three
  twin = twin
  mid = mid
  text = text
  two = two
  fifo = fifo
  usb = usb
  stick = stick
  lists = lists
  upper = upper
  disc = disc
  alias = alias
  again = again
  lower = lower
  hit = hit
  i1 = i1
  i2 = i2
  i3 = i3
  p = p
  q = q
  Root = Root
  NoPlaylist = NoPlaylist
  Absent = Absent
  Invalid = Invalid
  Unsafe = Unsafe
  Nodes = {lib, sub, one, nested, deep, three, twin, mid, text, two, fifo, usb, stick,
           lists, upper, disc, alias, again, lower, hit}
  Inodes = {i1, i2, i3}
  Node <- MCNode
  Limits <- MCLimits
  TagBytes <- MCTagBytes
  LongTags = {i2, i3}
  LongFields = {i3}
  Charge <- MCCharge
  Stem <- MCStem
  TagText <- MCTagText
  Characters = {65, 98}
  MaxQuery = 3
  MaxResults = 2
  MaxVersion = 1
  MaxCached = 2
  MaxTagBytes = 2
  Unreadable = {}
  Bulky = {i2}
INVARIANTS
  NothingLostSilently
  IndexExact
  CacheTruthful
  RowsExact
  SelectionShown
  ResultsExact
PROPERTIES
  CacheReplacedWhole
