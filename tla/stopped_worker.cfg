SPECIFICATION Spec
CONSTANTS
  d1 = d1
  d2 = d2
  w1 = w1
  w2 = w2
  id = id
  h1 = h1
  h2 = h2
  Documents = {d1}
  Hashes = {h1, h2}
  HashOf <- DifferentBytes
  Textless = {}
  Archives = {}
  Workers = {w1, w2}
  WorkerIds = {id}
  WorkerIdOf <- SharedWorkerId
  BatchSize = 1
  MaxAttempts = 2
  Uploaders = {u1}
  Deleters = {}
  Faults = {"crash"}
  Nobody = Nobody
  NoRow = NoRow
  NoDocument = NoDocument
INVARIANT ClaimIsReleased
