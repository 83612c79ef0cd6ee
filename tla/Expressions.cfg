CONSTANTS
  Items = {"a", "b"}
  Names = {"p"}
  Vocabularies <- MCVocabularies
  MaxTargets = 2
SPECIFICATION Spec
INVARIANTS
  MeansWhatItSays
  TargetsTogether
CHECK_DEADLOCK FALSE
