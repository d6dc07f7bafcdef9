\* Two variants, two edits or imports, two versions beside the first two, and a
\* save or a commit that fails.
CONSTANTS
  Variants = {main, stage2}
  Main = main
  Faults = {"refused", "commit"}
  MaxRoms = 4
  MaxVersions = 4
SPECIFICATION Spec
INVARIANTS TypeOK NavInLineage
PROPERTIES HistoryKept RedoGivesBack EditsCaptured
