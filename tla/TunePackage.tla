----------------------------- MODULE TunePackage ------------------------------
(***************************************************************************)
(* The package that carries a tune from ECU Studio to ECU Drive, written   *)
(* and read by TunePackage.cpp: an archive of a manifest, a ROM, a recipe  *)
(* and notes, which may reach the phone cut or damaged.                    *)
(*                                                                         *)
(* Abstractions.  An archive is a sequence of cells, from 1: a header of   *)
(* any kind is one cell, and so are the manifest and each word of a file.  *)
(* The sum of a ROM is the ROM.  Files are stored, as this program writes  *)
(* them, and the sum that the headers hold is left out: it is not read.    *)
(***************************************************************************)
EXTENDS Integers, Sequences, SequencesExt

CONSTANTS
  PackageWords, \* words of a ROM, a recipe and notes
  PackageLength,\* how many a ROM or a recipe has at most
  NotesLength,  \* how many notes have at most
  PackageEcus   \* ids of ECUs

ASSUME PackageAssumption == PackageLength \in Nat /\ NotesLength \in Nat

VARIABLES
  tune,         \* the package that was exported: [ecu, rom, recipe, notes]
  archive       \* the file as it reached the phone

packageVars == <<tune, archive>>

Word(w) == [kind |-> "word", word |-> w]
Manifest(t) == [kind |-> "manifest", ecu |-> t.ecu, sum |-> t.rom, notes |-> t.notes]
LocalHeader(file) == [kind |-> "local", name |-> file.name, length |-> Len(file.data)]
CentralHeader(file, at) ==
  [kind |-> "central", name |-> file.name, length |-> Len(file.data), at |-> at]
\* Of the length cells of the central directory from at.
EndHeader(length, at) == [kind |-> "end", length |-> length, at |-> at]

-----------------------------------------------------------------------------
(* Writing. *)

FilesOf(t) ==
  <<[name |-> "manifest", data |-> <<Manifest(t)>>], [name |-> "rom", data |-> t.rom],
    [name |-> "recipe", data |-> t.recipe]>>
    \o (IF t.notes = <<>> THEN <<>> ELSE <<[name |-> "notes", data |-> t.notes]>>)

\* appendStoreFile
AppendStoreFile(out, file) ==
  [local |-> out.local \o <<LocalHeader(file)>> \o file.data,
   central |-> Append(out.central, CentralHeader(file, Len(out.local) + 1))]

\* writeZip
WriteZip(t) ==
  LET out == FoldLeft(AppendStoreFile, [local |-> <<>>, central |-> <<>>], FilesOf(t))
  IN out.local \o out.central \o <<EndHeader(Len(out.central), Len(out.local) + 1)>>

-----------------------------------------------------------------------------
(* Reading. *)

\* findEOCD: the last one, 0 when there is none.
FindEOCD(zip) ==
  LET ends == {i \in DOMAIN zip : zip[i].kind = "end"}
  IN IF ends = {} THEN 0 ELSE CHOOSE i \in ends : \A j \in ends : j <= i

\* The entries of the central directory, up to the first cell that is none.
Directory(zip, e) ==
  LET inside == SubSeq(zip, e.at, e.at + e.length - 1)
  IN SubSeq(inside, 1, SelectInSeq(inside \o <<e>>, LAMBDA c : c.kind # "central") - 1)

\* extractNamed: the first entry of the name; everything is looked for within the file; <<>> for
\* an error.
ExtractNamed(zip, name) ==
  LET end == FindEOCD(zip)
      dir == IF end = 0 \/ zip[end].at + zip[end].length - 1 > Len(zip) THEN <<>>
             ELSE Directory(zip, zip[end])
      named == {i \in DOMAIN dir : dir[i].name = name}
      entry == dir[Min(named)]
  IN IF \/ named = {} \/ entry.at > Len(zip) \/ zip[entry.at].kind # "local"
        \/ entry.at + entry.length > Len(zip)
     THEN <<>> ELSE SubSeq(zip, entry.at + 1, entry.at + entry.length)

Refused == [ok |-> FALSE]
Accepted(man, rom, recipe, notes) ==
  [ok |-> TRUE,
   tune |-> [ecu |-> man.ecu, rom |-> rom, recipe |-> recipe,
             notes |-> IF notes = <<>> THEN man.notes ELSE notes]]

\* A slip: the sum of the ROM is not looked at.
ReadZipUnsummed(zip) ==
  LET file(name) == ExtractNamed(zip, name)
      man == file("manifest")
  IN IF <<>> \in {man, file("rom"), file("recipe")} \/ Head(man).kind # "manifest" THEN Refused
     ELSE Accepted(Head(man), file("rom"), file("recipe"), file("notes"))

\* readZip: the notes may be missing; the ROM has the sum of the manifest.
ReadZip(zip) ==
  LET file(name) == ExtractNamed(zip, name)
      man == file("manifest")
  IN IF \/ <<>> \in {man, file("rom"), file("recipe")}
        \/ Head(man).kind # "manifest" \/ Head(man).sum # file("rom")
     THEN Refused
     ELSE Accepted(Head(man), file("rom"), file("recipe"), file("notes"))

-----------------------------------------------------------------------------
(* The packages that exportEcutune writes, and what may reach the phone. *)

WordsOf(n) == {[i \in 1..k |-> Word(s[i])] : k \in 1..n, s \in [1..n -> PackageWords]}
Packages ==
  [ecu : PackageEcus, rom : WordsOf(PackageLength), recipe : WordsOf(PackageLength),
   notes : WordsOf(NotesLength) \cup {<<>>}]

\* The beginning of the archive, or the archive with one cell become another one or garbage.
Received(zip) ==
  {SubSeq(zip, 1, n) : n \in 0..Len(zip)}
    \cup {[zip EXCEPT ![i] = c] : i \in DOMAIN zip,
            c \in {Word(w) : w \in PackageWords} \cup {zip[i] : i \in DOMAIN zip}}

PackageInit == tune \in Packages /\ archive \in Received(WriteZip(tune))

-----------------------------------------------------------------------------
(* Properties. *)

\* A package that arrived whole is read as it was exported; one that was cut is refused; and one
\* that was damaged is refused or has the ROM that was exported.
PackageWhole ==
  LET read == ReadZip(archive)
      whole == WriteZip(tune)
  IN /\ archive = whole => read.ok /\ read.tune = tune
     /\ Len(archive) < Len(whole) => ~read.ok
     /\ read.ok => read.tune.rom = tune.rom
=============================================================================
