------------------------------ MODULE MCFiles --------------------------------
(***************************************************************************)
(* Small instances of the parts that download, install and change files    *)
(* and ROMs.  Each behaviour is one of one part, the other parts stay as   *)
(* they began.  The parts "relocate" and "package" take no step: they are  *)
(* every short ROM, for the operators of Relocation, and every small       *)
(* package that reaches the phone whole, cut or damaged.                   *)
(***************************************************************************)
EXTENDS AutoMods, MapEditor, DamosEditor, Checksums, TunePackage, Projects,
        StudioUpdater, HubTools, DriveUpdater, TLC

VARIABLE part

Parts ==
  {"studio", "hub", "drive", "mods", "relocate", "editor", "damos", "checksum", "package",
   "project"}

-----------------------------------------------------------------------------
(* A recipe of twin curves, a map, a curve whose axis is apart and two     *)
(* values; the kinds of items of the catalogue.                            *)

Curve(n, a) ==
  [name |-> n, type |-> "curve", com |-> FALSE, at |-> a, dims |-> <<2>>,
   axes |-> <<<<0, 1>>>>, axesAt |-> <<>>]
Value(n, anchor, search, range) ==
  [name |-> n, type |-> "value", at |-> 7, anchor |-> anchor, search |-> search,
   range |-> range, stock |-> 1]
MCRecipe ==
  <<Curve("hi", 1), Curve("lo", 4),
    [name |-> "map", type |-> "map", com |-> FALSE, at |-> 2, dims |-> <<1, 1>>,
     axes |-> <<<<0>>, <<1>>>>, axesAt |-> <<>>],
    [name |-> "com", type |-> "curve", com |-> TRUE, at |-> 7, dims |-> <<1>>,
     axes |-> <<<<1, 2>>>>, axesAt |-> <<5>>],
    Value("v", "lo", FALSE, <<>>), Value("s", "hi", TRUE, <<1, 2>>)>>

Pattern == [kind |-> "pattern", search |-> <<2, 1>>, bytes |-> <<0, 0>>, restore |-> <<2, 1>>]
Address == [kind |-> "address", at |-> 7, bytes |-> <<3>>, restore |-> <<1>>]
Damos(a, search, new, old) ==
  [kind |-> "damos", at |-> a, search |-> search, bytes |-> new, restore |-> old]
RecipeOps ==
  <<[entry |-> "v", op |-> "set", raw |-> 2],
    [entry |-> "hi", op |-> "setCells",
     points |-> <<[at |-> <<0>>, raw |-> 2], [at |-> <<2>>, raw |-> 2]>>],
    [entry |-> "lo", op |-> "setMapAll", raw |-> 0],
    [entry |-> "map", op |-> "addPct"]>>
MCCatalogue ==
  <<Pattern, Address, Damos(0, <<1, 1>>, <<1, 0>>, <<1, 1>>), Damos(6, <<>>, <<0>>, <<>>),
    [kind |-> "template", maps |-> <<"map">>, mods |-> <<Address>>],
    [kind |-> "template", maps |-> <<"hi", "map">>, mods |-> <<>>],
    [kind |-> "recipe", ops |-> RecipeOps]>>

ShortRoms == [1..Size -> 0..2]
ModsRoms == {<<2, 0, 1, 1, 1, 2, 1>>, <<0, 1, 1, 0, 1, 1, 1>>, <<2, 0, 1, 2, 0, 1, 1>>}
PlainRom == [i \in 1..Size |-> 1]

-----------------------------------------------------------------------------
(* For the map editor: two ROMs with two maps each, at the same addresses  *)
(* but of other sizes.                                                     *)

FirstRom == <<3, 1, 1, 0, 3, 1, 1, 2>>
OtherRom == <<2, 1, 2, -4, 1, 1, 1, 0>>
MCMapRoms == {FirstRom, OtherRom}
MapAt(a, s) == [at |-> a, stage1 |-> s]
MCLists == {<<MapAt(6, TRUE), MapAt(1, TRUE)>>, <<MapAt(1, FALSE)>>}
MCStage1 == <<1, 6>>
MCTyped == {1, 11, Bad}

-----------------------------------------------------------------------------
(* For the editor of recipes: two files, one with rows of unknown types.   *)

Row(v, y, a) == [field |-> v, type |-> y, apart |-> a]
MCRecipeFiles ==
  ("full" :> [entries |-> <<Row("new", "map", TRUE), Row("old", "unknown", FALSE)>>,
              mods |-> <<Row("old", "address", FALSE), Row("new", "unknown", FALSE)>>]
   @@ "short" :> [entries |-> <<Row("old", "value", FALSE)>>, mods |-> <<>>])

-----------------------------------------------------------------------------
(* For the checksums: an image of a size that MPPS knows, one without any  *)
(* table, and two EDC17 with areas one inside the other, one of which is   *)
(* out of the ROM or of a kind that is not corrected.                      *)

Area(al, f, t) == [algo |-> al, from |-> f, to |-> t, init |-> 1, expected |-> 2]
Image(n, known, areas) == [size |-> n, known |-> known, areas |-> areas]
MCImages ==
  {Image(3, TRUE, <<>>), Image(2, FALSE, <<>>),
   Image(3, FALSE, <<Area("add", 1, 3), Area("crc", 1, 2), Area("crc", 4, 5)>>),
   Image(3, FALSE, <<Area("add", 2, 3), Area("crc", 1, 3), Area("add16", 1, 1)>>)}

-----------------------------------------------------------------------------

updaters == <<updaterVars, hubVars, updateVars>>
roms == <<modsVars, editorVars, damosVars, sumVars>>
exchanges == <<projectVars, packageVars>>
filesVars == <<part, updaters, roms, exchanges>>

SomeTool == CHOOSE t \in Tools : TRUE
SomeRom == CHOOSE r \in ProjectRoms : TRUE
SomeTune == CHOOSE t \in Packages : TRUE

\* A part that does not run begins in one state.
FilesInit ==
  /\ part \in Parts
  /\ UpdaterInit /\ (part = "studio" \/ published = 0)
  /\ HubInit /\ (part = "hub" \/ (fetched = SomeTool /\ Available(binary) = Tools))
  /\ DriveUpdaterInit
  /\ ModsInit /\ (part = "relocate" \/ bytes \in (IF part = "mods" THEN ModsRoms ELSE {PlainRom}))
  /\ EditorInit /\ (part = "editor" \/ (mapRom = FirstRom /\ Len(entries) = 1))
  /\ DamosInit
  /\ SumInit /\ (part = "checksum" \/ sumRom = <<0, 0>>)
  /\ ProjectsInit /\ (part = "project" \/ \A d \in DiskFiles : elsewhere[d].rom = SomeRom)
  /\ IF part = "package" THEN PackageInit ELSE tune = SomeTune /\ archive = <<>>

FilesNext ==
  /\ UNCHANGED part
  /\ \/ part = "studio" /\ UpdaterNext /\ UNCHANGED <<hubVars, updateVars, roms, exchanges>>
     \/ part = "hub" /\ HubNext /\ UNCHANGED <<updaterVars, updateVars, roms, exchanges>>
     \/ part = "drive" /\ DriveUpdaterNext /\ UNCHANGED <<updaterVars, hubVars, roms, exchanges>>
     \/ part = "mods" /\ ModsNext /\ UNCHANGED <<updaters, editorVars, damosVars, sumVars, exchanges>>
     \/ part = "editor" /\ EditorNext /\ UNCHANGED <<updaters, modsVars, damosVars, sumVars, exchanges>>
     \/ part = "damos" /\ DamosNext /\ UNCHANGED <<updaters, modsVars, editorVars, sumVars, exchanges>>
     \/ part = "checksum" /\ SumNext /\ UNCHANGED <<updaters, modsVars, editorVars, damosVars, exchanges>>
     \/ part = "project" /\ ProjectsNext /\ UNCHANGED <<updaters, roms, packageVars>>

FilesSpec ==
  FilesInit /\ [][FilesNext]_filesVars /\ UpdaterFairness /\ HubFairness

\* Every part keeps its type.
FilesTypeOK ==
  /\ part \in Parts
  /\ UpdaterTypeOK /\ HubTypeOK /\ DriveUpdaterTypeOK /\ ModsTypeOK /\ EditorTypeOK
  /\ DamosTypeOK /\ SumTypeOK /\ ProjectsTypeOK

\* What the updaters promise of the files they install and of what they tell.
UpdatesSound == AppImageWhole /\ ApkOffered /\ NotesShownOnce

\* A check or a download that was asked for ends, and the window or the buttons say so.
DownloadsConclude == WindowsAreTold /\ ButtonsComeBack

\* A ROM that was changed is marked, by the modifications, the map editor and the corrections,
\* and so is a recipe.
EditsMarked == ChangeMarked /\ EditsKept /\ RecipeMarked /\ SumsMarked

\* What the map editor shows is what the ROM and the baseline hold, and the form of the recipe
\* editor shows the row that it writes.
EditorInStep == GridInStep /\ GhostInStep /\ FormInStep

\* What works on a ROM does what it says: the relocation of a recipe, the correction of sums and
\* the package that carries it to the phone.
RomWorkSound ==
  /\ part \in {"mods", "relocate"} => OneMapEach(bytes) /\ StockStays(bytes) /\ ValuesFollow(bytes)
  /\ CorrectionHolds
  /\ part = "package" => PackageWhole

\* The list shows the projects there are, and a project that says it has a ROM has one.
ProjectsSound == ListAgrees /\ RomOfMeta
=============================================================================
