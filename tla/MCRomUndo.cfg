\* One edit, and nothing fails.
CONSTANTS
  Variants = {main, stage2}
  Main = main
  Faults = {}
  MaxRoms = 3
  MaxVersions = 4
SPECIFICATION Spec
PROPERTY UndoLosesNothing
