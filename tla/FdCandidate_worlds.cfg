SPECIFICATION CandidateSpec
CONSTANTS
  Width = 32
  Height = 16
  MinRiver = 9
  SourceDistance = 8
  TownDistance = 12
  SeaDistance = 4
  Nowhere = Nowhere
  Million = 1000000
  Unreached = 1000000
  Maps <- MCMaps
  Choices <- MCChoices
CHECK_DEADLOCK FALSE
INVARIANTS
  HydrologyIsOnePath
  RoadIsOneWay
  LandCoastIsTold
  ReferencesNameTheirTiles
  FallbackHasItsTerrain
  OnlyCoverageOrRoadRejects
