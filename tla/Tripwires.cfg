SPECIFICATION Spec
CONSTANTS
  Tools = {"e2e", "structure", "audit", "page"}
  Canonical <- MCCanonical
  Numbered <- MCNumbered
  KeyRest <- MCKeyRest
  TestFiles <- MCTestFiles
  Sources <- MCSources
  CardArgs <- MCCardArgs
  Packages <- MCPackages
  LayerOf <- MCLayerOf
  Frameworks <- MCFrameworks
  Trees <- MCTrees
  MigrationTexts <- MCMigrationTexts
  RequiredFiles <- MCRequiredFiles
  Services <- MCServices
  Statements <- MCStatements
  Arguments <- MCArguments
  Pages <- MCPages
  Markup <- MCMarkup
  MaxEdits <- MCMaxEdits
INVARIANTS PassMeansTraced CoreLeavesOverOthers AuditIsWired TablesArrive OnlyEmptyTagsTrip SameButForSpace
PROPERTIES OtherCardsDoNotMatter
CHECK_DEADLOCK FALSE
