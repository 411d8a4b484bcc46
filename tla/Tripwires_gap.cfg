SPECIFICATION Spec
CONSTANTS
  Tools = {"e2e"}
  Canonical <- MCCanonical
  Numbered <- MCNumbered
  KeyRest <- MCKeyRest
  TestFiles <- MCTestFiles
  Sources <- GapSources
  CardArgs <- GapCardArgs
  Packages <- MCPackages
  LayerOf <- MCLayerOf
  Frameworks <- MCFrameworks
  Trees <- MCTrees
  MigrationTexts <- MCMigrationTexts
  RequiredFiles <- MCRequiredFiles
  Services <- MCServices
  Statements <- MCStatements
  Arguments <- MCArguments
  Pages <- MCPages
  Markup <- MCMarkup
  MaxEdits <- MCMaxEdits
INVARIANT NoSilentGap
CHECK_DEADLOCK FALSE
