CONSTANTS
  Names <- MCNames
  Excludable <- MCExcludable
SPECIFICATION Spec
INVARIANTS
  ArchiveMatchesFilter
  SingleFileExtraction
