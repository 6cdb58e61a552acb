SPECIFICATION Spec
CONSTANTS
  Mandatory = 3
  MaxSections = 4
  Tags <- MCTags
CHECK_DEADLOCK FALSE
INVARIANTS
  TableIsOfTheFile
  LoadIsAtomic
  ManifestCountsAll
PROPERTIES
  OwnSavesLoad
