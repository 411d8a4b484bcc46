SPECIFICATION Spec
CONSTANTS
  Names <- MCNames
  Template <- MCTemplate
  Manifest <- MCManifest
  GoMod = "go.mod"
  Keys <- MCKeys
  Holds <- MCHolds
  Identities <- MCIdentities
  Inside <- MCInside
  Chosen <- MCChosen
  Shows <- MCShows
  MaxRuns = 2
INVARIANTS PassIsOneIdentity FinishedPasses BuiltOrNotIsScaffold
PROPERTY OwnFilesStay
CHECK_DEADLOCK FALSE
