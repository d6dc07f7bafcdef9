------------------------------ MODULE AutoMods ------------------------------
(***************************************************************************)
(* The modifications that ECU Studio applies to the open ROM and takes     *)
(* back (automods_panel.cpp, automods_panel_ops.cpp): patterns, bytes at   *)
(* an address, vehicle templates, recipes of operations on characteristics *)
(* (OpenDamosRecipes.cpp, RomPatcher.cpp) and the auto-mods of open_damos. *)
(* Addresses are relocated as Relocation says, on the ROM as it is.        *)
(*                                                                         *)
(* Abstractions.  The catalogue is a constant.  A percentage doubles the   *)
(* positive cells, a cell goes up to Padding - 1, and scaling to physical  *)
(* values is left out.  Confirmations are answered yes, as a refused one   *)
(* does nothing.                                                           *)
(***************************************************************************)
EXTENDS Relocation

CONSTANTS
  Catalogue,    \* the sequence of the items of the list
  StartRoms,    \* ROMs that are opened
  MaxCommands   \* bound: commands on one ROM

\* A modification writes words; a recipe and a template are sequences.
SomeWords == Seq(0..Padding)
ModTyped(m) == m.bytes \in SomeWords /\ m.restore \in SomeWords
OpTyped(op) ==
  /\ op.op \in {"set", "setMapAll"} => op.raw \in 0..Padding
  /\ op.op = "setCells" =>
       op.points \in Seq(Range(op.points)) /\ \A p \in Range(op.points) : p.raw \in 0..Padding
ItemTyped(i) ==
  \/ i.kind \in {"pattern", "address", "damos"} /\ ModTyped(i)
  \/ /\ i.kind = "template" /\ i.maps \in Seq(Range(i.maps)) /\ i.mods \in Seq(Range(i.mods))
     /\ \A m \in Range(i.mods) : ModTyped(m)
  \/ /\ i.kind = "recipe" /\ i.ops \in Seq(Range(i.ops))
     /\ \A op \in Range(i.ops) : OpTyped(op)
ASSUME ModsAssumption ==
  /\ MaxCommands \in Nat /\ StartRoms \subseteq RomType
  /\ Catalogue \in Seq(Range(Catalogue)) /\ \A i \in Range(Catalogue) : ItemTyped(i)

VARIABLES
  bytes,        \* m_rom
  saved,        \* the file of the document
  modified,     \* RomDocument::m_modified
  commands      \* bound: commands so far

modsVars == <<bytes, saved, modified, commands>>

Unchanged(rom) == [rom |-> rom, changed |-> FALSE]
Written(rom, at, words) ==
  [i \in 1..Size |-> IF i \in at..(at + Len(words) - 1) THEN words[i - at + 1] ELSE rom[i]]

\* findPattern: the first place, or 0.
FindPattern(rom, words) ==
  LET places == {a \in 1..Size : Inside(a, Len(words)) /\ Words(rom, a, Len(words)) = words}
  IN IF places = {} THEN 0 ELSE CHOOSE a \in places : \A b \in places : a <= b

\* One after the other, each on what the ones before have left.
Each(rom, seq, Do(_, _)) ==
  LET then(done, x) ==
        Given(Do(done.rom, x), LAMBDA d : [rom |-> d.rom, changed |-> done.changed \/ d.changed])
  IN FoldLeft(then, Unchanged(rom), seq)

-----------------------------------------------------------------------------
(* Patterns and addresses. *)

\* applyPattern: told as a change whatever was there.
ApplyPattern(rom, item) ==
  LET a == FindPattern(rom, item.search)
  IN IF a = 0 \/ ~Inside(a, Len(item.bytes)) THEN Unchanged(rom)
     ELSE [rom |-> Written(rom, a, item.bytes), changed |-> TRUE]

\* restorePattern: where the replacement is found first.
RestorePattern(rom, item) ==
  LET a == FindPattern(rom, item.bytes)
  IN IF item.restore = <<>> \/ a = 0 THEN Unchanged(rom)
     ELSE [rom |-> Written(rom, a, item.restore), changed |-> TRUE]

\* relocatedAddressFor: the value of the recipe that has this default address, if it was
\* found; 0: none.
RelocatedAddressFor(rom, at) ==
  LET values == {e \in Range(Recipe) : e.type = "value" /\ e.at = at}
  IN Given({p \in {Relocate(rom)[e.name] : e \in values} : Relocated(p)},
           LAMBDA found : IF found = {} THEN 0 ELSE (CHOOSE p \in found : TRUE).address)

\* applyAddress: at the relocated address, or at the fixed one if stock or target is there.
ApplyAddress(rom, item) ==
  LET n == Len(item.bytes)
      expected(a) == item.restore = <<>> \/ Words(rom, a, n) \in {item.restore, item.bytes}
      applied(relocated) ==
        LET a == IF relocated = 0 THEN item.at ELSE relocated
        IN IF ~Inside(a, n) \/ (relocated = 0 /\ ~expected(a)) THEN Unchanged(rom)
           ELSE [rom |-> Written(rom, a, item.bytes), changed |-> TRUE]
  IN Given(RelocatedAddressFor(rom, item.at), applied)

\* restoreAddress: relocated on the ROM as it is now, and no look at what is there.
RestoreAddress(rom, item) ==
  LET restored(relocated) ==
        LET a == IF relocated = 0 THEN item.at ELSE relocated
        IN IF item.restore = <<>> \/ ~Inside(a, Len(item.restore)) THEN Unchanged(rom)
           ELSE [rom |-> Written(rom, a, item.restore), changed |-> TRUE]
  IN Given(RelocatedAddressFor(rom, item.at), restored)

\* writeBytes
WriteBytes(rom, a, words) ==
  IF a = 0 \/ ~Inside(a, Len(words)) THEN Unchanged(rom)
  ELSE [rom |-> Written(rom, a, words), changed |-> Written(rom, a, words) # rom]

\* applyDamosAutoMod and restoreDamosAutoMod: a pattern is searched, an address is fixed.
ApplyDamos(rom, item) ==
  WriteBytes(rom, IF item.at = 0 THEN FindPattern(rom, item.search) ELSE item.at, item.bytes)
RestoreDamos(rom, item) ==
  IF item.restore = <<>> THEN Unchanged(rom)
  ELSE WriteBytes(rom, IF item.at = 0 THEN FindPattern(rom, item.bytes) ELSE item.at, item.restore)

-----------------------------------------------------------------------------
(* Operations on characteristics. *)

\* The dimensions that are read at a, and the cells they give; none if a dimension is less
\* than `least`.
Dims(rom, type, a) ==
  LET n == IF type = "map" THEN 2 ELSE 1 IN IF Inside(a, n) THEN Words(rom, a, n) ELSE <<0>>
AxisAt(dims, a, i) == a + Len(dims) + (IF i = 1 THEN 0 ELSE dims[1])
CellsAt(rom, type, a, least) ==
  LET dims == Dims(rom, type, a)
  IN IF \E i \in 1..Len(dims) : dims[i] < least THEN <<>>
     ELSE [i \in 1..(IF Len(dims) = 2 THEN dims[1] * dims[2] ELSE dims[1]) |->
             a + Len(dims) + Total(dims) + i - 1]
\* readMapDimensions, readCurveData: they must end in the ROM.
Data(rom, type, a, least) ==
  LET cells == CellsAt(rom, type, a, least)
  IN IF \E i \in 1..Len(cells) : cells[i] > Size THEN <<>> ELSE cells

Changed(rom, new) == [rom |-> new, changed |-> new # rom]

\* A slip: the largest value is not looked at.
ScaledPast(v) == IF v > 0 THEN 2 * v ELSE v

\* applyPctToMap, applyPctToCurve: a curve has two words or more.
Scaled(v) == IF v > 0 THEN Least(2 * v, Padding - 1) ELSE v
AddPct(rom, type, a) ==
  LET cells == Range(Data(rom, type, a, IF type = "map" THEN 1 ELSE 2))
  IN Changed(rom, [i \in 1..Size |-> IF i \in cells THEN Scaled(rom[i]) ELSE rom[i]])

\* setPhys, setRaw, setMapAll
SetAll(rom, cells, v) ==
  Changed(rom, [i \in 1..Size |-> IF i \in cells THEN v ELSE rom[i]])

\* setMapAll: a curve's end is not looked at, what is past the ROM's is not written.
AllCells(rom, type, a) ==
  Range(IF type = "map" THEN Data(rom, type, a, 1) ELSE CellsAt(rom, type, a, 2))

\* setCells: a point that is not on the axes ends it, after the points before.
SetCells(rom, type, a, points) ==
  LET data == Data(rom, type, a, 1)
      dims == Dims(rom, type, a)
      on(p, i) == {k \in 1..dims[i] : rom[AxisAt(dims, a, i) + k - 1] = p.at[i]}
      index(p, i) == CHOOSE k \in on(p, i) : \A l \in on(p, i) : k <= l
      flat(p) == IF type = "map" THEN (index(p, 1) - 1) * dims[2] + index(p, 2) ELSE index(p, 1)
      known == {n \in 0..Len(points) : \A m \in 1..n, i \in 1..Len(dims) : on(points[m], i) # {}}
      done == CHOOSE n \in known : \A m \in known : m <= n
  IN IF data = <<>> THEN Unchanged(rom)
     ELSE Each(rom, SubSeq(points, 1, done), LAMBDA r, p : SetAll(r, {data[flat(p)]}, p.raw))

\* One operation of applyRecipe, at the place its entry had before the first one.
Operate(rom, op, place) ==
  LET e == Entry(op.entry) IN
  CASE ~Relocated(place) -> Unchanged(rom)
    [] Relocated(place) /\ e.type = "value" ->
         IF op.op = "set" THEN SetAll(rom, {place.address}, op.raw) ELSE Unchanged(rom)
    [] OTHER ->
         CASE op.op = "addPct" -> AddPct(rom, e.type, place.address)
           [] op.op = "setMapAll" -> SetAll(rom, AllCells(rom, e.type, place.address), op.raw)
           [] op.op = "setCells" -> SetCells(rom, e.type, place.address, op.points)
           [] OTHER -> Unchanged(rom)

\* applyRecipe: the entries are relocated once.
ApplyRecipe(rom, item) ==
  LET places == Relocate(rom)
  IN Each(rom, item.ops, LAMBDA r, op : Operate(r, op, places[op.entry]))

\* The mods of a template.
ApplyMods(rom, mods) ==
  Each(rom, mods, LAMBDA r, m : IF m.kind = "pattern" THEN ApplyPattern(r, m) ELSE ApplyAddress(r, m))

\* The percentages of stage 1: always as on a map.
StageOne(rom, maps) ==
  LET places == Relocate(rom)
  IN Each(rom, maps, LAMBDA r, m : IF Relocated(places[m]) THEN AddPct(r, "map", places[m].address)
                                   ELSE Unchanged(r))

\* A slip: only the mods count as a change.
ApplyTemplateUntold(rom, item) == ApplyMods(StageOne(rom, item.maps).rom, item.mods)

\* applyTemplate: the percentages of stage 1, then the mods.
ApplyTemplate(rom, item) ==
  LET then(stage1) ==
        Given(ApplyMods(stage1.rom, item.mods),
              LAMBDA mods : [rom |-> mods.rom, changed |-> stage1.changed \/ mods.changed])
  IN Given(StageOne(rom, item.maps), then)

Apply(rom, item) ==
  CASE item.kind = "pattern" -> ApplyPattern(rom, item)
    [] item.kind = "address" -> ApplyAddress(rom, item)
    [] item.kind = "damos" -> ApplyDamos(rom, item)
    [] item.kind = "template" -> ApplyTemplate(rom, item)
    [] item.kind = "recipe" -> ApplyRecipe(rom, item)

\* A template and a recipe cannot be taken back.
Restore(rom, item) ==
  CASE item.kind = "pattern" -> RestorePattern(rom, item)
    [] item.kind = "address" -> RestoreAddress(rom, item)
    [] item.kind = "damos" -> RestoreDamos(rom, item)
    [] OTHER -> Unchanged(rom)

-----------------------------------------------------------------------------
(* The document and the panel. *)

ModsInit ==
  /\ bytes \in StartRoms /\ saved = bytes /\ modified = FALSE /\ commands = 0

Command == commands < MaxCommands /\ commands' = commands + 1

\* refresh: a recipe is offered when one of its entries was found.
Offered(item) ==
  item.kind = "recipe" => \E i \in 1..Len(item.ops) : Relocated(Relocate(bytes)[item.ops[i].entry])

\* bound: two items in one selection
Selections ==
  {<<Catalogue[i]>> : i \in 1..Len(Catalogue)}
    \cup {<<Catalogue[p[1]], Catalogue[p[2]]>> :
            p \in {p \in (1..Len(Catalogue)) \X (1..Len(Catalogue)) : p[1] < p[2]}}

\* applySelection
ApplySelection ==
  /\ Command
  /\ \E s \in Selections :
       /\ \A i \in 1..Len(s) : Offered(s[i])
       /\ \E done \in {Each(bytes, s, Apply)} :
            bytes' = done.rom /\ modified' = (modified \/ done.changed)
  /\ UNCHANGED saved

\* restoreSelection
RestoreSelection ==
  /\ Command
  /\ \E s \in Selections :
       \E done \in {Each(bytes, s, Restore)} :
         bytes' = done.rom /\ modified' = (modified \/ done.changed)
  /\ UNCHANGED saved

\* saveToFile
Save == Command /\ saved' = bytes /\ modified' = FALSE /\ UNCHANGED bytes

ModsNext == ApplySelection \/ RestoreSelection \/ Save

ModsSpec == ModsInit /\ [][ModsNext]_modsVars

-----------------------------------------------------------------------------
(* Properties. *)

ModsTypeOK ==
  /\ {bytes, saved} \subseteq RomType /\ modified \in BOOLEAN /\ commands \in 0..MaxCommands

\* Whatever was applied and taken back, a ROM that is not the one in its file is marked as
\* modified, so that leaving and the autosave keep it (automods_panel.cpp:355-468).
ChangeMarked == bytes # saved => modified

\* Applying a pattern and taking it back gives the ROM back ("Restaurer les octets d'origine",
\* automods_panel.cpp:439).
PatternGivesBack ==
  \A i \in {i \in Range(Catalogue) : i.kind = "pattern"} :
    \A applied \in {Apply(bytes, i).rom} : applied # bytes => Restore(applied, i).rom = bytes
=============================================================================
