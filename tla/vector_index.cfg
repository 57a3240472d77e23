SPECIFICATION Spec
CONSTANTS
  d1 = d1
  d2 = d2
  d3 = d3
  old = old
  new = new
  wide = wide
  Documents = {d1, d2}
  Created <- OldestFirst
  Textless = {d2}
  Spaces = {old, new, wide}
  DimOf <- Widths
  Processes = {p1, p2}
  Searches = {s1}
  Rolling = FALSE
  MaxAttempts = 1
  Nobody = Nobody
  NoSpace = NoSpace
  NoHit = NoHit
SYMMETRY Interchangeable
INVARIANTS
  IndexMatchesRows
  DeletedNotIndexed
  MismatchTouchesNothing
  MixedOnlyAcrossReindex
