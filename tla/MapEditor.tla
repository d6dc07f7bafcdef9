----------------------------- MODULE MapEditor -------------------------------
(***************************************************************************)
(* The map editor of ECU Studio (map_editor_panel*.cpp) on the open ROM    *)
(* (rom_document.cpp): a list of maps made again whenever a ROM is loaded, *)
(* a grid of texts read from one map, operations that write both the grid  *)
(* and the ROM at the offsets noted when the grid was read, and the ghost  *)
(* mode that shows a reference ROM.  The other panels change the ROM under *)
(* it without a word to it.                                                *)
(*                                                                         *)
(* Abstractions.  A ROM is a sequence of signed words, addresses are from  *)
(* 1, and the axes of a map are left out.  A percentage doubles.  What a   *)
(* text that is no number stands for is Bad.                               *)
(***************************************************************************)
EXTENDS Integers, Sequences, FiniteSets, SequencesExt

CONSTANTS
  Top,          \* words are -Top - 1..Top
  MapRoms,      \* ROMs that are opened, all of the same size
  Lists,        \* lists of maps that a search or a recipe gives: [at, stage1]
  Stage1,       \* the sequence of maps of the ECU in the catalogue
  Typed,        \* values that the user types
  MaxEdits      \* bound: steps that change the ROM, its file or its baseline

MapSize == Len(CHOOSE rom \in MapRoms : TRUE)
MapWords == -Top - 1..Top
MapEntries == Seq([at : Nat \ {0}, stage1 : BOOLEAN])
ASSUME EditorAssumption ==
  /\ Top \in Nat /\ MaxEdits \in Nat /\ MapSize \in Nat \ {0}
  /\ MapRoms # {} /\ MapRoms \subseteq [1..MapSize -> MapWords]
  /\ Lists \subseteq MapEntries /\ Stage1 \in Seq(Nat) /\ Typed \subseteq Int

Bad == 2 * Top + 99

VARIABLES
  mapRom,       \* m_rom
  baseline,     \* m_baseline
  fileRom,      \* the file of the document
  unsaved,      \* m_modified
  entries,      \* m_entries
  row,          \* m_currentRow: an index of entries, or 0
  shownAt,      \* m_currentAddr, 0 before the first map
  shape,        \* [off, nx, ny]: m_dataOff, m_curNx, m_curNy
  grid,         \* the texts, cell by cell
  ghost,        \* m_ghostChk
  reference,    \* the texts of the reference ROM behind them
  inStep,       \* the ROM was changed by this panel only since the grid was read
  typedAt,      \* cells whose text is what the user typed
  crashed,      \* m_entries[-1] was read
  edits

docVars == <<mapRom, baseline, fileRom, unsaved>>
listVars == <<entries, row>>
gridVars == <<shownAt, shape, grid, reference, inStep, typedAt, crashed>>
editorVars == <<docVars, listVars, gridVars, ghost, edits>>

NoShape == [off |-> 0, nx |-> 0, ny |-> 0]
MapCells(s) == 1..(s.nx * s.ny)
Clamp(v) == IF v > Top THEN Top ELSE IF v < -Top - 1 THEN -Top - 1 ELSE v
\* What a cast to the width of a word gives.
Wrap(v) == ((v + Top + 1) % (2 * Top + 2)) - Top - 1
\* n / d to the nearest, halves away from 0.
Rounded(n, d) == IF n >= 0 THEN (2 * n + d) \div (2 * d) ELSE -((d - 2 * n) \div (2 * d))
Number(text) == IF text = Bad THEN 0 ELSE text

\* readMapData: two dimensions, then the cells, all within the ROM.
ReadMap(rom, a) ==
  IF /\ a + 1 <= Len(rom) /\ rom[a] > 0 /\ rom[a + 1] > 0
     /\ a + 1 + rom[a] * rom[a + 1] <= Len(rom)
  THEN [off |-> a + 2, nx |-> rom[a], ny |-> rom[a + 1]]
  ELSE NoShape
Texts(rom, s) == [k \in MapCells(s) |-> rom[s.off + k - 1]]

\* applyPctToMap: cells above 0 only.
Percent(rom, a) ==
  LET s == ReadMap(rom, a)
  IN [i \in DOMAIN rom |->
        IF i - s.off + 1 \in MapCells(s) /\ rom[i] > 0 THEN Clamp(2 * rom[i]) ELSE rom[i]]

EditorInit ==
  /\ mapRom \in MapRoms /\ baseline = mapRom /\ fileRom = mapRom /\ unsaved = FALSE
  /\ entries \in Lists /\ row = 0
  /\ shownAt = 0 /\ shape = NoShape /\ grid = <<>> /\ ghost = FALSE /\ reference = <<>>
  /\ inStep = TRUE /\ typedAt = {} /\ crashed = FALSE /\ edits = 0

\* loadGrid: reads the ROM, the baseline and the entry of the row, which is r; a map that
\* cannot be read empties the grid.
LoadGrid(a, r) ==
  LET s == ReadMap(mapRom', a) IN
  IF s = NoShape
  THEN /\ shape' = [shape EXCEPT !.nx = 0, !.ny = 0]
       /\ grid' = <<>> /\ reference' = <<>> /\ inStep' = TRUE /\ typedAt' = {}
       /\ UNCHANGED <<shownAt, crashed>>
  ELSE /\ shownAt' = a /\ shape' = s /\ grid' = Texts(mapRom', s)
       /\ LET b == Texts(baseline', ReadMap(baseline', a)) IN
          reference' = IF ghost' THEN [k \in MapCells(s) \cap DOMAIN b |-> b[k]] ELSE <<>>
       /\ inStep' = TRUE /\ typedAt' = {} /\ crashed' = (r = 0)

Running == ~crashed
Edit == Running /\ edits < MaxEdits /\ edits' = edits + 1

-----------------------------------------------------------------------------
(* The ROM, the list and the ghost. *)

\* loadFromFile and loadFromData, which has no file: baselineChanged, then romLoaded.
OpenMapRom ==
  /\ Edit
  /\ mapRom' \in MapRoms /\ baseline' = mapRom' /\ unsaved' = FALSE
  /\ fileRom' \in {mapRom', <<>>}
  /\ UNCHANGED ghost
  /\ IF shownAt # 0 /\ ghost THEN LoadGrid(shownAt, row)
     ELSE inStep' = FALSE /\ UNCHANGED <<shownAt, shape, grid, reference, typedAt, crashed>>
  /\ entries' \in Lists /\ row' = 0

SaveMapRom ==
  /\ Edit /\ fileRom' = mapRom /\ unsaved' = FALSE
  /\ UNCHANGED <<mapRom, baseline, listVars, gridVars, ghost>>

\* refreshMaps, when the ECU of the document changes.
RefreshMaps ==
  /\ Running /\ entries' \in Lists /\ row' = 0
  /\ UNCHANGED <<docVars, gridVars, ghost, edits>>

\* runMapFinder, runOpenDamos, importOpenDamosRecipe: after the maps of the catalogue.
Stage1Only(list) ==
  FoldLeft(LAMBDA kept, e : IF e.stage1 THEN Append(kept, e) ELSE kept, <<>>, list)
SearchMaps ==
  /\ Running
  /\ \E l \in Lists : Stage1Only(l) = <<>> /\ entries' = Stage1Only(entries) \o l
  /\ row' = 0
  /\ UNCHANGED <<docVars, gridVars, ghost, edits>>

\* onMapSelectionChanged
SelectMap ==
  /\ Running
  /\ UNCHANGED <<docVars, entries, ghost, edits>>
  /\ \E r \in 1..Len(entries) : row' = r /\ LoadGrid(entries[r].at, r)

ToggleGhost ==
  /\ Running /\ ghost' = ~ghost
  /\ UNCHANGED <<docVars, listVars, edits>>
  /\ IF shownAt # 0 THEN LoadGrid(shownAt, row) ELSE UNCHANGED gridVars

\* pickBaseline: the file as it is now, a version or another file.
PickBaseline ==
  /\ Edit
  /\ baseline' \in MapRoms \cup {IF fileRom = <<>> THEN mapRom ELSE fileRom}
  /\ UNCHANGED <<mapRom, fileRom, unsaved, listVars, ghost>>
  /\ IF shownAt # 0 /\ ghost THEN LoadGrid(shownAt, row) ELSE UNCHANGED gridVars

\* Another panel writes a word and marks the document as modified.
OtherPanel ==
  /\ Edit
  /\ \E i \in DOMAIN mapRom, v \in Typed \ {Bad} : mapRom' = [mapRom EXCEPT ![i] = Clamp(v)]
  /\ unsaved' = TRUE /\ inStep' = FALSE
  /\ UNCHANGED <<baseline, fileRom, listVars, shownAt, shape, grid, reference, typedAt,
                 crashed, ghost>>

-----------------------------------------------------------------------------
(* Edits.  The selection of the grid is an input of each operation. *)

Selected == SUBSET MapCells(shape) \ {{}}

\* The wanted values of some cells, written to the ROM and read again into the grid.
WriteCells(want) ==
  LET done == {k \in DOMAIN want : shape.off + k - 1 <= Len(mapRom)} IN
  /\ mapRom' = [i \in DOMAIN mapRom |->
                  IF i - shape.off + 1 \in done THEN Clamp(want[i - shape.off + 1]) ELSE mapRom[i]]
  /\ grid' = [k \in DOMAIN grid |-> IF k \in done THEN Clamp(want[k]) ELSE grid[k]]
  /\ unsaved' = (unsaved \/ done # {}) /\ typedAt' = typedAt \ done
  /\ UNCHANGED <<baseline, fileRom, listVars, shownAt, shape, reference, inStep, crashed, ghost>>

\* onCellChanged: the text stays when the word is what a cast makes of it.
OnCellChanged ==
  /\ Edit
  /\ \E k \in MapCells(shape), v \in Typed :
       LET at == shape.off + k - 1
           written == v # Bad /\ at <= Len(mapRom)
           again == written /\ Clamp(v) # Wrap(v)
       IN /\ mapRom' = IF written THEN [mapRom EXCEPT ![at] = Clamp(v)] ELSE mapRom
          /\ grid' = [grid EXCEPT ![k] = IF again THEN Clamp(v) ELSE v]
          /\ typedAt' = IF again THEN typedAt \ {k} ELSE typedAt \cup {k}
          /\ unsaved' = (unsaved \/ written)
  /\ UNCHANGED <<baseline, fileRom, listVars, shownAt, shape, reference, inStep, crashed, ghost>>

\* applyToSelection, with opSet, opAdd and opMultiply: texts that are no number are left out.
OpSet ==
  /\ Edit /\ \E s \in Selected, v \in Typed \ {Bad} :
               WriteCells([k \in {k \in s : grid[k] # Bad} |-> Clamp(v)])
OpAdd ==
  /\ Edit /\ \E s \in Selected, d \in Typed \ {Bad} :
               WriteCells([k \in {k \in s : grid[k] # Bad} |-> grid[k] + d])
OpMultiply ==
  /\ Edit /\ \E s \in Selected :
               WriteCells([k \in {k \in s : grid[k] # Bad} |-> 2 * grid[k]])

CellRow(k) == (k - 1) \div shape.nx
CellColumn(k) == (k - 1) % shape.nx
\* opInterpolate: between the first and the last selected cell of each row of three or more.
OpInterpolate ==
  /\ Edit
  /\ \E s \in Selected :
       LET peers(k) == {l \in s : CellRow(l) = CellRow(k)}
           first(k) == Min(peers(k))
           last(k) == Max(peers(k))
           want(k) == LET v0 == Number(grid[first(k)])
                          v1 == Number(grid[last(k)])
                          n == last(k) - first(k)
                      IN Rounded(v0 * n + (v1 - v0) * (k - first(k)), n)
       IN /\ Cardinality(s) >= 3
          /\ WriteCells([k \in {k \in s : Cardinality(peers(k)) >= 3} |-> want(k)])

Near(k) ==
  {l \in MapCells(shape) : /\ CellRow(l) - CellRow(k) \in -1..1
                           /\ CellColumn(l) - CellColumn(k) \in -1..1}
SumOf(cells) == FoldSet(LAMBDA l, sum : sum + Number(grid[l]), 0, cells)
\* opSmooth: the mean of the cell and of its neighbours, as they were.
OpSmooth ==
  /\ Edit
  /\ \E s \in Selected :
       WriteCells([k \in s |-> Rounded(SumOf(Near(k)), Cardinality(Near(k)))])

\* pasteRegionTsv: one row of texts from the active cell on; what is past the grid is left out.
PasteRegionTsv ==
  /\ Edit
  /\ \E k \in MapCells(shape), clip \in UNION {[1..n -> Typed] : n \in 1..2} :
       LET to == {l \in MapCells(shape) : /\ CellRow(l) = CellRow(k)
                                          /\ l - k + 1 \in DOMAIN clip /\ clip[l - k + 1] # Bad}
       IN WriteCells([l \in to |-> clip[l - k + 1]])

\* applyPercent without a selection; with one it is opMultiply.
ApplyPercent ==
  /\ Edit /\ row # 0
  /\ LET a == entries[row].at IN
     /\ ReadMap(mapRom, a) # NoShape
     /\ mapRom' = Percent(mapRom, a) /\ unsaved' = (unsaved \/ mapRom' # mapRom)
     /\ UNCHANGED <<baseline, fileRom, listVars, ghost>>
     /\ IF a = shownAt THEN LoadGrid(a, row) ELSE UNCHANGED gridVars

\* A slip: the grid is not read again.
ApplyFullStage1Unread ==
  /\ Edit
  /\ mapRom' = FoldLeft(Percent, mapRom, Stage1) /\ unsaved' = (unsaved \/ mapRom' # mapRom)
  /\ UNCHANGED <<baseline, fileRom, listVars, gridVars, ghost>>

ApplyFullStage1 ==
  /\ Edit
  /\ mapRom' = FoldLeft(Percent, mapRom, Stage1) /\ unsaved' = (unsaved \/ mapRom' # mapRom)
  /\ UNCHANGED <<baseline, fileRom, listVars, ghost>>
  /\ IF shownAt # 0 /\ shape.nx > 0 THEN LoadGrid(shownAt, row) ELSE UNCHANGED gridVars

EditorNext ==
  \/ OpenMapRom \/ SaveMapRom \/ RefreshMaps \/ SearchMaps \/ SelectMap \/ ToggleGhost
  \/ PickBaseline \/ OtherPanel
  \/ OnCellChanged \/ OpSet \/ OpAdd \/ OpMultiply \/ OpInterpolate \/ OpSmooth
  \/ PasteRegionTsv \/ ApplyPercent \/ ApplyFullStage1

EditorSpec == EditorInit /\ [][EditorNext]_editorVars

-----------------------------------------------------------------------------
(* Properties. *)

RomWords(rom) == \A i \in DOMAIN rom : rom[i] \in MapWords

EditorTypeOK ==
  /\ RomWords(mapRom) /\ RomWords(baseline) /\ RomWords(fileRom)
  /\ Len(mapRom) > 0 /\ {unsaved, ghost, inStep, crashed} \subseteq BOOLEAN
  /\ row \in 0..Len(entries) /\ shownAt \in 0..Len(mapRom) /\ edits \in 0..MaxEdits
  /\ DOMAIN grid = MapCells(shape) /\ typedAt \subseteq DOMAIN grid

\* The grid and the ROM stay in step through every operation of the panel, on its cells and on
\* whole maps, saves for the texts that the user typed ("Relit la valeur reellement ecrite",
\* map_editor_panel_grid.cpp:211), as long as the ROM was not changed elsewhere.
GridInStep ==
  Running /\ inStep /\ shape.nx > 0 =>
    /\ shape = ReadMap(mapRom, shownAt)
    /\ \A k \in DOMAIN grid \ typedAt : grid[k] = mapRom[shape.off + k - 1]

\* In ghost mode the values behind the cells are those of the baseline that was chosen last,
\* whatever was opened since.
GhostInStep ==
  Running /\ ghost /\ shape.nx > 0 =>
    LET s == ReadMap(baseline, shownAt)
    IN reference = [k \in MapCells(shape) \cap MapCells(s) |-> baseline[s.off + k - 1]]

\* A ROM that differs from its file is marked as modified; one that has no file is only kept
\* apart when it is opened.
EditsKept == fileRom # <<>> /\ mapRom # fileRom => unsaved
=============================================================================
