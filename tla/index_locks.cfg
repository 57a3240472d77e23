SPECIFICATION Spec
CONSTANTS
  d1 = d1
  d2 = d2
  d3 = d3
  old = old
  new = new
  wide = wide
  Documents = {d1, d2, d3}
  Created <- OldestFirst
  Textless = {}
  Spaces = {old}
  DimOf <- Widths
  Processes = {p1, p2}
  Searches = {}
  Rolling = FALSE
  MaxAttempts = 1
  Nobody = Nobody
  NoSpace = NoSpace
  NoHit = NoHit
SYMMETRY Interchangeable
INVARIANT CirclesGoThroughRelations
