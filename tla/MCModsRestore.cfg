\* Patterns whose replacement may be found elsewhere.
CONSTANTS
  Releases = 0
  MaxStarts = 1
  Tools = {a}
  Versions = 1
  Size = 7
  Padding = 3
  Tolerance = 0
  Window = 3
  MaxCommands = 3
  Recipe <- MCRecipe
  Catalogue <- MCCatalogue
  StartRoms <- ModsRoms
  Top = 3
  MapRoms <- MCMapRoms
  Lists <- MCLists
  Stage1 <- MCStage1
  Typed <- MCTyped
  MaxEdits = 0
  Fields = {"new", "old"}
  RecipeFiles <- MCRecipeFiles
  MaxRows = 3
  MaxRecipeSteps = 0
  Base = 3
  Images <- MCImages
  MaxSums = 0
  PackageWords = {w1, w2}
  PackageLength = 2
  NotesLength = 1
  PackageEcus = {e1}
  Projects0 = {p, q}
  DiskFiles = {f}
  ProjectRoms = {r1, r2}
  Ecus = {e1}
  Slugs = {1, 2}
  MaxFileSteps = 0
SPECIFICATION FilesSpec
INVARIANT PatternGivesBack
CHECK_DEADLOCK FALSE
