SPECIFICATION Spec
CONSTANTS
  NoFile = NoFile
  Catalogue <- MCCatalogue
  Digest <- MCDigest
  Policy <- MCPolicy
  Profiles <- MCProfiles
  Searches <- MCSearches
  MaxResults = 3
  MaxEvaluated = 2
  ContactLimit = 2
  MaxRows = 3
  MaxSnapshots = 2
  MaxWork = 6
INVARIANTS TypeOK NoIdentityMixed NoMissingFactRejects UnknownIsNotZero ViewsAgree
  CalibrationTellsOneStory OutsideNeverAccepted BestContactsKept
PROPERTIES OrderDoesNotMatter
CHECK_DEADLOCK FALSE
