SPECIFICATION Spec
CONSTANTS
  Files <- MCFiles
  Methods <- MCMethods
  UrlPaths <- MCUrlPaths
  ParamSets <- MCParamSets
  Bodies <- MCBodies
  ResponseLists <- MCResponseLists
  ErrorSets <- MCErrorSets
  NoteSets <- MCNoteSets
  Descriptions <- MCDescriptions
  Metas <- MCMetas
  Codes <- MCCodes
  Begin <- MCBegin
  MaxEdits = 2
INVARIANTS CollectionIsFaithful DerivedIsGreen IndexListsCollection
  CollectionIsForCallers WrittenFromCodeIsQuiet NamesakeIsInStep
CHECK_DEADLOCK FALSE
