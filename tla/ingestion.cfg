SPECIFICATION Spec
CONSTANTS
  d1 = d1
  d2 = d2
  w1 = w1
  w2 = w2
  id = id
  h1 = h1
  h2 = h2
  Documents = {d1, d2}
  Hashes = {h1, h2}
  HashOf <- DifferentBytes
  Textless = {d2}
  Archives = {d2}
  Workers = {w1, w2}
  WorkerIds = {id}
  WorkerIdOf <- SharedWorkerId
  BatchSize = 2
  MaxAttempts = 2
  Uploaders = {u1}
  Deleters = {x1}
  Faults = {"crash", "ambiguous"}
  Nobody = Nobody
  NoRow = NoRow
  NoDocument = NoDocument
SYMMETRY Interchangeable
INVARIANTS
  ReadyIsSearchable
  DeletedIsErased
  StatusAgreesWithJob
