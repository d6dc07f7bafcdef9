------------------------------- MODULE Projects -------------------------------
(***************************************************************************)
(* The projects of ECU Studio on disk (ProjectManager.cpp), the panel that *)
(* lists and changes them (project_panel*.cpp), and the document that is   *)
(* opened from them or from a file outside (rom_document.cpp,              *)
(* main_window.cpp), with the copies of originals that each leaves.        *)
(*                                                                         *)
(* Abstractions.  A project is its metadata (its ECU and whether it has a  *)
(* ROM), rom.bin, rom.original.bin and the slots by name.  A file holds a  *)
(* ROM, nothing or a part (Cut): writes do not look at what was written,   *)
(* so a full disk cuts files without a word, and so does the end of the    *)
(* program in the middle of one.  The versions of RomVersions are left out *)
(* here, and dates, which only sort the list.                              *)
(***************************************************************************)
EXTENDS Naturals, FiniteSets, Functions

CONSTANTS
  Projects0,    \* ids that newUuid gives, each once
  DiskFiles,    \* files outside of the projects
  ProjectRoms,  \* ROMs
  Ecus,
  Slugs,        \* names of slots, 1..n: the free one after a name is the next free number
  MaxFileSteps  \* bound

ASSUME ProjectAssumption ==
  /\ MaxFileSteps \in Nat /\ Slugs \subseteq Nat
  /\ {"missing", "cut"} \cap (ProjectRoms \cup Ecus) = {}
  /\ "nowhere" \notin Projects0 \cup DiskFiles /\ Projects0 \cap DiskFiles = {}

VARIABLES
  projects,     \* by project: [given, ecu, hasRom, rom, original, roms]: given:
                \* its id was given; ecu of the metadata
  elsewhere,    \* by file outside: its ROM and its copy .orig
  listed,       \* m_list
  chosen,       \* the project selected in the list
  doc,          \* the document: rom, home (a project, a file or Nowhere), managed, edited
  fileSteps

projectVars == <<projects, elsewhere, listed, chosen, doc, fileSteps>>

Missing == "missing"
Cut == "cut"
Nowhere == "nowhere"
Files == ProjectRoms \cup {Missing, Cut}
Absent == [given |-> FALSE, ecu |-> Missing, hasRom |-> FALSE,
           rom |-> Missing, original |-> Missing, roms |-> [s \in Slugs |-> Missing]]
Readable(p) == projects[p].ecu \in Ecus
\* ProjectManager::list, of the next state.
OnDisk == {p \in Projects0 : projects'[p].ecu \in Ecus}

ProjectsInit ==
  /\ projects = [p \in Projects0 |-> Absent]
  /\ elsewhere \in [DiskFiles -> [rom : ProjectRoms, orig : {Missing}]]
  /\ listed = {} /\ chosen = Nowhere
  /\ doc = [rom |-> Missing, home |-> Nowhere, managed |-> FALSE, edited |-> FALSE]
  /\ fileSteps = 0

OneMore == fileSteps < MaxFileSteps /\ fileSteps' = fileSteps + 1

\* refreshList: the first project, unless the operation selects one.
RefreshList(p) ==
  /\ listed' = OnDisk
  /\ \/ p \in OnDisk /\ chosen' = p
     \/ p \notin OnDisk /\ OnDisk # {} /\ chosen' \in OnDisk
     \/ OnDisk = {} /\ chosen' = Nowhere
NoRefresh == UNCHANGED <<listed, chosen>>

\* The program ends in the middle of a write and is started again.
StartsAgain ==
  /\ doc' = [rom |-> Missing, home |-> Nowhere, managed |-> FALSE, edited |-> FALSE]
  /\ RefreshList(Nowhere)

-----------------------------------------------------------------------------
(* What ProjectManager writes. *)

\* How the writes of an operation end: all of them whole; the n-th is refused, which the code
\* sees; the disk is full from the n-th on, which it does not; the program ends in the n-th.
WriteEnds(n) == [at : 1..n, how : {"refused", "full", "ended"}] \cup {[at |-> n + 1, how |-> "whole"]}
WrittenBy(end, k, new, old) ==
  CASE k < end.at -> new
    [] k = end.at -> IF end.how = "refused" THEN old ELSE Cut
    [] OTHER -> IF end.how = "full" THEN Cut ELSE old
Succeeds(end) == end.how \in {"whole", "full"}

\* A slip: the copy of the original is made at every import.
ImportedEachTime(d, rom, end) ==
  [d EXCEPT !.rom = WrittenBy(end, 1, rom, @),
            !.original = WrittenBy(end, 2, rom, @),
            !.ecu = WrittenBy(end, 3, @, @),
            !.hasRom = @ \/ (d.ecu \in Ecus /\ end.at > 3)]

\* importRom: rom.bin, then the original unless there is one, then the metadata.
Imported(d, rom, end) ==
  [d EXCEPT !.rom = WrittenBy(end, 1, rom, @),
            !.original = IF @ = Missing THEN WrittenBy(end, 2, rom, @) ELSE @,
            !.ecu = WrittenBy(end, 3, @, @),
            !.hasRom = @ \/ (d.ecu \in Ecus /\ end.at > 3)]

\* addRomSlot: the first free name from the one wanted.
WithSlot(d, slug, content) ==
  LET free == {s \in Slugs : s >= slug /\ d.roms[s] = Missing}
      first == {s \in free : \A t \in free : s <= t}
  IN IF first = {} THEN d ELSE [d EXCEPT !.roms[CHOOSE s \in first : TRUE] = content]

-----------------------------------------------------------------------------
(* The panel. *)

\* submitForm and create: the directory, then the metadata.
SubmitForm ==
  /\ OneMore
  /\ \E p \in Projects0, e \in Ecus, end \in WriteEnds(1) :
       /\ projects[p] = Absent
       /\ projects' = [projects EXCEPT ![p] = [Absent EXCEPT
            !.given = TRUE, !.ecu = WrittenBy(end, 1, e, Missing)]]
       /\ IF end.how = "ended" THEN StartsAgain
          ELSE UNCHANGED doc /\ (IF Succeeds(end) THEN RefreshList(p) ELSE NoRefresh)
  /\ UNCHANGED elsewhere

\* importRomFor: the list is made again when the import succeeds.
ImportRomFor ==
  /\ OneMore /\ chosen \in Projects0 /\ Readable(chosen)
  /\ \E rom \in ProjectRoms, end \in WriteEnds(3) :
       /\ projects' = [projects EXCEPT ![chosen] = Imported(@, rom, end)]
       /\ IF end.how = "ended" THEN StartsAgain
          ELSE UNCHANGED doc /\ (IF Succeeds(end) THEN RefreshList(chosen) ELSE NoRefresh)
  /\ UNCHANGED elsewhere

\* addRomSlotFor
AddRomSlotFor ==
  /\ OneMore /\ chosen \in Projects0
  /\ \E rom \in ProjectRoms, s \in Slugs, end \in WriteEnds(1) :
       /\ projects' = [projects EXCEPT ![chosen] =
                     IF end.how = "refused" THEN [@ EXCEPT !.given = TRUE]
                     ELSE [WithSlot(@, s, WrittenBy(end, 1, rom, Missing)) EXCEPT !.given = TRUE]]
       /\ IF end.how = "ended" THEN StartsAgain ELSE UNCHANGED doc /\ NoRefresh
  /\ UNCHANGED elsewhere

\* editProject: the metadata is written over; the list is made again when that succeeds.
EditProject ==
  /\ OneMore /\ chosen \in Projects0 /\ Readable(chosen)
  /\ \E e \in Ecus, end \in WriteEnds(1) :
       /\ projects' = [projects EXCEPT ![chosen].ecu = WrittenBy(end, 1, e, @)]
       /\ IF end.how = "ended" THEN StartsAgain
          ELSE UNCHANGED doc /\ (IF Succeeds(end) THEN RefreshList(chosen) ELSE NoRefresh)
  /\ UNCHANGED elsewhere

\* duplicateProject: a new project, then its ROM and its slots; what fails of these is passed
\* over.
DuplicateProject ==
  /\ OneMore /\ chosen \in Projects0 /\ Readable(chosen)
  /\ \E p \in Projects0, end \in WriteEnds(5) :
       LET d == projects[chosen]
           new == [Absent EXCEPT !.given = TRUE, !.ecu = WrittenBy(end, 1, d.ecu, Missing)]
           rom == IF d.rom = Missing THEN new ELSE Imported(new, d.rom, [end EXCEPT !.at = @ - 1])
           slot(s) == IF d.roms[s] = Missing \/ (end.how = "refused" /\ end.at < 5) THEN d.roms[s]
                      ELSE WrittenBy(end, 5, d.roms[s], Missing)
           created == end.at > 1 \/ end.how = "full"
       IN /\ projects[p] = Absent
          /\ projects' = [projects EXCEPT ![p] =
                        IF created THEN [rom EXCEPT !.roms = [s \in Slugs |-> slot(s)]] ELSE new]
          /\ IF end.how = "ended" THEN StartsAgain
             ELSE UNCHANGED doc /\ (IF created THEN RefreshList(p) ELSE NoRefresh)
  /\ UNCHANGED elsewhere

\* A slip: the list is not made again.
DeleteProjectUnlisted ==
  /\ OneMore /\ chosen \in Projects0
  /\ projects' = [projects EXCEPT ![chosen] = [Absent EXCEPT !.given = TRUE]]
  /\ NoRefresh /\ UNCHANGED <<elsewhere, doc>>

\* deleteProject: the id is not given again.
DeleteProject ==
  /\ OneMore /\ chosen \in Projects0
  /\ projects' = [projects EXCEPT ![chosen] = [Absent EXCEPT !.given = TRUE]]
  /\ RefreshList(Nowhere) /\ UNCHANGED <<elsewhere, doc>>

SelectProject ==
  /\ chosen' \in listed \ {chosen} /\ UNCHANGED <<projects, elsewhere, listed, doc, fileSteps>>

-----------------------------------------------------------------------------
(* The document. *)

\* openProjectById of the panel and of the window: a managed document.
OpenProjectById ==
  /\ \E p \in listed : /\ Readable(p) /\ projects[p].rom # Missing
                       /\ doc' = [rom |-> projects[p].rom, home |-> p, managed |-> TRUE, edited |-> FALSE]
  /\ UNCHANGED <<projects, elsewhere, listed, chosen, fileSteps>>

\* openRomFromDialog and loadRomPath: a copy .orig is left beside the file, unless there is one
\* or it cannot be written; a copy that the end of the program cuts stays.
OpenRom ==
  /\ OneMore
  /\ \E f \in DiskFiles, end \in WriteEnds(1) :
       LET o == elsewhere[f]
           copy == IF o.orig # Missing THEN o.orig
                   ELSE IF end.how = "full" THEN Missing ELSE WrittenBy(end, 1, o.rom, Missing)
       IN /\ elsewhere' = [elsewhere EXCEPT ![f].orig = copy]
          /\ IF end.how = "ended" /\ o.orig = Missing THEN UNCHANGED projects /\ StartsAgain
             ELSE /\ doc' = [rom |-> o.rom, home |-> f, managed |-> FALSE, edited |-> FALSE]
                  /\ UNCHANGED projects /\ NoRefresh

EditRom ==
  /\ OneMore /\ doc.rom # Missing
  /\ \E rom \in ProjectRoms : doc' = [doc EXCEPT !.rom = rom, !.edited = TRUE]
  /\ UNCHANGED <<projects, elsewhere, listed, chosen>>

\* saveToFile, where the directory is still there.
SaveAt(where) ==
  /\ \E w \in {doc.rom, Cut} :
       \/ where \in Projects0 /\ projects[where].ecu # Missing
          /\ projects' = [projects EXCEPT ![where].rom = w] /\ UNCHANGED elsewhere
       \/ where \in DiskFiles /\ elsewhere' = [elsewhere EXCEPT ![where].rom = w] /\ UNCHANGED projects
  /\ UNCHANGED <<listed, chosen>>

\* autoSave, every minute and when the window is closed.
AutoSave ==
  /\ OneMore /\ doc.rom # Missing /\ doc.edited /\ doc.managed
  /\ SaveAt(doc.home) /\ doc' = [doc EXCEPT !.edited = FALSE]

\* "Enregistrer ROM...": the file that was opened or another; the document moves there and
\* stays managed or not.
SaveRomAs ==
  /\ OneMore /\ doc.rom # Missing
  /\ \E where \in DiskFiles \cup {doc.home} :
       /\ where # Nowhere /\ SaveAt(where)
       /\ doc' = [doc EXCEPT !.home = where, !.edited = FALSE]

ProjectsNext ==
  \/ SubmitForm \/ ImportRomFor \/ AddRomSlotFor \/ EditProject \/ DuplicateProject
  \/ DeleteProject \/ SelectProject
  \/ OpenProjectById \/ OpenRom \/ EditRom \/ AutoSave \/ SaveRomAs

ProjectsSpec == ProjectsInit /\ [][ProjectsNext]_projectVars

-----------------------------------------------------------------------------
(* Properties. *)

ProjectsTypeOK ==
  /\ \A p \in Projects0 :
       /\ projects[p].ecu \in Ecus \cup {Missing, Cut} /\ {projects[p].given, projects[p].hasRom} \subseteq BOOLEAN
       /\ {projects[p].rom, projects[p].original} \cup Range(projects[p].roms) \subseteq Files
  /\ \A f \in DiskFiles : elsewhere[f].rom \in Files /\ elsewhere[f].orig \in Files
  /\ listed \subseteq Projects0 /\ chosen \in listed \cup {Nowhere}
  /\ doc.home \in Projects0 \cup DiskFiles \cup {Nowhere} /\ fileSteps \in 0..MaxFileSteps

\* The list shows the projects that can be read, after every operation and whatever fails.
ListAgrees == listed = {p \in Projects0 : Readable(p)}

\* A project that says it has a ROM has one, with the copy of its original.
RomOfMeta ==
  \A p \in Projects0 : Readable(p) /\ projects[p].hasRom =>
                         projects[p].rom # Missing /\ projects[p].original # Missing

\* "preserve the factory dump so it can never be overwritten" (ProjectManager.cpp:261): the
\* original of a project, a slot and the copy .orig beside a file ("jamais reecrit",
\* rom_document.cpp:14) are never written over.
DumpsKept ==
  [][/\ \A p \in Projects0 : projects'[p].ecu # Missing =>
          /\ projects[p].original # Missing => projects'[p].original = projects[p].original
          /\ \A s \in Slugs : projects[p].roms[s] # Missing => projects'[p].roms[s] = projects[p].roms[s]
     /\ \A f \in DiskFiles : elsewhere[f].orig # Missing => elsewhere'[f].orig = elsewhere[f].orig
    ]_projectVars
=============================================================================
