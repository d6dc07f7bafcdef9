\* One part at a time; each one stops at its bounds.
CONSTANTS
  Releases = 2
  MaxStarts = 2
  Tools = {a, b}
  Versions = 3
  Size = 7
  Padding = 3
  Tolerance = 0
  Window = 3
  MaxCommands = 3
  Recipe <- MCRecipe
  Catalogue <- MCCatalogue
  StartRoms <- ShortRoms
  Top = 3
  MapRoms <- MCMapRoms
  Lists <- MCLists
  Stage1 <- MCStage1
  Typed <- MCTyped
  MaxEdits = 2
  Fields = {"new", "old"}
  RecipeFiles <- MCRecipeFiles
  MaxRows = 3
  MaxRecipeSteps = 3
  Base = 3
  Images <- MCImages
  MaxSums = 2
  PackageWords = {w1, w2}
  PackageLength = 2
  NotesLength = 1
  PackageEcus = {e1}
  Projects0 = {p, q}
  DiskFiles = {f}
  ProjectRoms = {r1, r2}
  Ecus = {e1}
  Slugs = {1, 2}
  MaxFileSteps = 4
SPECIFICATION FilesSpec
INVARIANTS FilesTypeOK UpdatesSound EditsMarked EditorInStep RomWorkSound ProjectsSound
PROPERTIES DumpsKept DownloadsConclude
CHECK_DEADLOCK FALSE
