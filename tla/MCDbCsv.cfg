CONSTANTS
  Name = {"nodes", "ports", ""}
  MaxWidth = 2
  MaxRows = 6
SPECIFICATION Spec
INVARIANTS
  RecordsUnderTheirHeader
  ErrorsAreJustified
