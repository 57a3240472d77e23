SPECIFICATION Spec
CONSTANTS
  Migrators = {a1, a2}
  Idle = Idle
  Targets = {"head", "back", "base"}
  MaxRows = 1
SYMMETRY Symmetry
INVARIANTS
  RevisionFixesSchema
  HeadIsMetadata
  OnlyRowsRefuse
  ReferencesStayInTenant
PROPERTIES
  RowsSurvive
