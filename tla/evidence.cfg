SPECIFICATION Spec
CONSTANTS
  zip = zip
  pdf = pdf
  Docs = {zip, pdf}
  Coded = {zip}
  Readings <- MCReadings
  MaxId = 14
  MaxEvidence = 4
  MaxManual = 1
  MaxSpare = 1
  Null = Null
  NoRow = NoRow
  Lost = Lost
INVARIANTS
  Grounded
  LocatorsAgree
  ReferencesHold
  ResolutionCoherent
  OnlyManualReferencesRefuse
PROPERTIES
  OnlyRelationsGoWithEntities
  PackageGoesWithArchive
CHECK_DEADLOCK FALSE
