---------------------------- MODULE RomVersions -----------------------------
(***************************************************************************)
(* ECU Studio's ROM document and its versions: the ROM being edited        *)
(* (RomDocument), the autosave and the menus of the main window, the       *)
(* versions panel (GitPanel) with its undo and redo arrows, and the Git    *)
(* repository of the project under it (GitManager).                        *)
(*                                                                         *)
(* An action is one slot, its dialogs answered; while a dialog is open     *)
(* only the autosave timer may run, which is then an action before it.     *)
(*                                                                         *)
(* Abstractions.  A ROM is a number: every edit, import or foreign file is *)
(* a new one.  There is one project, already holding the ROM 1, and one    *)
(* file outside of it.  A version is the index of its ROM in `roms`, and a *)
(* variant is its first-parent lineage, newest first, which is all the     *)
(* code reads of the commits.  meta.json, the copies of originals, the     *)
(* baseline, the ECU and the text of messages are left out.                *)
(***************************************************************************)
EXTENDS Integers, Sequences

CONSTANTS
  Variants,     \* names of branches
  Main,         \* the one the repository starts with
  Faults,       \* calls that may fail, within FaultNames
  MaxRoms,      \* bound on the ROMs made
  MaxVersions   \* bound on the versions recorded

\* A file that cannot be written, one written short, a commit that fails, and a
\* working file that cannot take the version gone to.
FaultNames == {"refused", "cut", "commit", "reload"}

ASSUME VersionsAssumption ==
  /\ Main \in Variants /\ Faults \subseteq FaultNames
  /\ MaxRoms \in Nat /\ MaxVersions \in Nat

\* ROMs that are no ROM: an empty file, or none in the version; a short file.
Empty == 0
Cut == -1

VARIABLES
  files,        \* rom.bin of the project, and the file outside
  doc,          \* RomDocument: m_rom, m_path, m_managed, m_modified
  roms,         \* the ROM of each version
  lines,        \* each variant's lineage; <<>> when there is no such branch
  head,         \* the variant HEAD names
  index,        \* the ROM last staged
  panelOn,      \* m_repoPath is the project's
  nav,          \* m_navChain and m_navPos
  made,         \* the last ROM made
  failed        \* a call of the last step failed

repoVars == <<roms, lines, head, index>>
vars == <<files, doc, repoVars, panelOn, nav, made, failed>>

NoDoc == [rom |-> Empty, path |-> "none", managed |-> FALSE, modified |-> FALSE]
NoNav == [chain |-> <<>>, pos |-> 0]

\* loadFromFile and loadFromData
Loaded(rom, path, managed) ==
  [rom |-> rom, path |-> path, managed |-> managed, modified |-> FALSE]

Init ==
  /\ files = [project |-> 1, outside |-> 2] /\ made = 2
  /\ doc = NoDoc
  /\ roms = <<Empty, 1>>
  /\ lines = [v \in Variants |-> IF v = Main THEN <<2, 1>> ELSE <<>>]
  /\ head = Main /\ index = 1
  /\ panelOn = FALSE /\ nav = NoNav /\ failed = FALSE

-----------------------------------------------------------------------------
(* The document. *)

IsLoaded == doc.rom # Empty

Edit ==
  /\ IsLoaded /\ made < MaxRoms
  /\ made' = made + 1
  /\ doc' = [doc EXCEPT !.rom = made', !.modified = TRUE]
  /\ failed' = FALSE
  /\ UNCHANGED <<files, repoVars, panelOn, nav>>

\* saveToFile(path), with the call that fails if any.  A short write is not noticed.
Write(fs, path, rom, fault) ==
  CASE fault = "refused" -> fs
    [] fault = "cut" -> [fs EXCEPT ![path] = Cut]
    [] OTHER -> [fs EXCEPT ![path] = rom]

\* What the slots save before they do anything else.
Unsaved == IsLoaded /\ doc.modified /\ doc.path # "none"
Flushed(fault) == IF Unsaved THEN Write(files, doc.path, doc.rom, fault) ELSE files
FlushedDoc(fault) ==
  IF Unsaved /\ fault # "refused" THEN [doc EXCEPT !.modified = FALSE] ELSE doc

\* At most one of the calls a step makes fails.
May(fault, calls) ==
  fault \in {"none"} \cup (calls \cap Faults) /\ failed' = (fault # "none")

SaveCalls == IF Unsaved THEN {"refused", "cut"} ELSE {}

\* "Enregistrer ROM...": m_managed is kept.
SaveRom(path) ==
  /\ IsLoaded
  /\ \E fault \in {"none"} \cup Faults :
       /\ May(fault, {"refused", "cut"})
       /\ files' = Write(files, path, doc.rom, fault)
       /\ doc' = IF fault = "refused" THEN doc ELSE [doc EXCEPT !.path = path, !.modified = FALSE]
  /\ UNCHANGED <<repoVars, panelOn, nav, made>>

\* "Ouvrir ROM..."; the panel keeps its project.
OpenRom ==
  /\ doc' = Loaded(files.outside, "outside", FALSE)
  /\ failed' = FALSE
  /\ UNCHANGED <<files, repoVars, panelOn, nav, made>>

\* A ROM that comes from no file (WinOLS, MPPS).
LoadFromData ==
  /\ made < MaxRoms /\ made' = made + 1
  /\ doc' = Loaded(made', "none", FALSE)
  /\ failed' = FALSE
  /\ UNCHANGED <<files, repoVars, panelOn, nav>>

-----------------------------------------------------------------------------
(* The repository. *)

Room == Len(roms) < MaxVersions
Tip == roms[lines[head][1]]

\* stageAll and commitStaged: a version of what the file holds, even unchanged.
Record(rom) ==
  /\ roms' = Append(roms, rom)
  /\ lines' = [lines EXCEPT ![head] = <<Len(roms) + 1>> \o @]
  /\ index' = rom

\* A failure may come before or after the staging.
RecordFails(rom) == index' \in {index, rom} /\ UNCHANGED <<roms, lines>>

\* A slip: the version recorded without staging the file.
CommitUnstaged(rom, fault) == IF fault = "commit" THEN RecordFails(rom) ELSE Record(index)

\* commit: its failures look like nothing to commit.
Commit(rom, fault) == IF fault = "commit" THEN RecordFails(rom) ELSE Record(rom)

\* The chain walked and the position on it.
Arrows(chain, pos) == [chain |-> chain, pos |-> pos]

\* Which arrows are enabled: emitNavState runs in the slot of every change of the
\* repository, of the position and of the modified flag of the document.
CanUndo == panelOn /\ (nav.pos + 1 < Len(nav.chain) \/ doc.modified)
CanRedo == panelOn /\ nav.pos > 0

\* Slips: arrows that keep their position, or walk the lineage of before the step.
RebuildNavKeepsPos == nav' = Arrows(lines'[head'], nav.pos)
RebuildNavEarly == nav' = Arrows(lines[head], 0)

\* rebuildNav, once the rest of the step is done
RebuildNav == nav' = Arrows(lines'[head'], 0)

\* reloadWorkingRom
Reload == doc' = Loaded(files'.project, "project", TRUE)

\* openProjectById: the document, then the panel.
OpenProject ==
  /\ UNCHANGED <<files, repoVars, made>>
  /\ Reload /\ panelOn' = TRUE /\ RebuildNav /\ failed' = FALSE

\* A slip: the version recorded before the save.
SaveAndCommitFirst(fault) ==
  /\ May(fault, SaveCalls \cup IF panelOn THEN {"commit"} ELSE {})
  /\ files' = Flushed(fault)
  /\ IF fault # "refused" /\ panelOn THEN Commit(files.project, fault)
     ELSE UNCHANGED <<roms, lines, index>>

\* saveToFile, then autoCommit
SaveAndCommit(fault) ==
  /\ May(fault, SaveCalls \cup IF panelOn THEN {"commit"} ELSE {})
  /\ files' = Flushed(fault)
  /\ IF fault # "refused" /\ panelOn THEN Commit(files'.project, fault)
     ELSE UNCHANGED <<roms, lines, index>>

AutoSave ==
  /\ Unsaved /\ doc.managed /\ Room
  /\ \E fault \in {"none"} \cup Faults : SaveAndCommit(fault) /\ doc' = FlushedDoc(fault)
  /\ IF roms' # roms THEN nav' = Arrows(lines'[head], 0) ELSE UNCHANGED nav
  /\ UNCHANGED <<head, panelOn, made>>

\* closeEvent; the application is then started again.
CloseEvent ==
  /\ \/ /\ Unsaved /\ doc.managed /\ Room
        /\ \E fault \in {"none"} \cup Faults : SaveAndCommit(fault)
     \/ ~(Unsaved /\ doc.managed) /\ failed' = FALSE /\ UNCHANGED <<files, roms, lines, index>>
  /\ doc' = NoDoc /\ panelOn' = FALSE /\ nav' = NoNav
  /\ UNCHANGED <<head, made>>

\* importRom, of the projects panel: the document is not told.
ImportRom ==
  /\ made < MaxRoms /\ made' = made + 1 /\ Room
  /\ \E fault \in {"none"} \cup Faults :
       /\ May(fault, {"refused", "cut", "commit"})
       /\ files' = Write(files, "project", made', fault)
       /\ IF fault = "refused" THEN UNCHANGED <<roms, lines, index>>
          ELSE Commit(files'.project, fault)
  /\ UNCHANGED <<doc, head, panelOn, nav>>

-----------------------------------------------------------------------------
(* The versions panel. *)

\* The document is saved before the message is asked for, which may be cancelled.
CommitCurrent ==
  /\ panelOn /\ Room
  /\ \E fault \in {"none"} \cup Faults, answered \in BOOLEAN :
       /\ May(fault, SaveCalls \cup IF answered THEN {"commit"} ELSE {})
       /\ files' = Flushed(fault) /\ doc' = FlushedDoc(fault)
       /\ IF answered /\ ~(Unsaved /\ fault = "refused") THEN Commit(files'.project, fault)
          ELSE UNCHANGED <<roms, lines, index>>
  /\ UNCHANGED <<head, panelOn, made>>
  /\ IF roms' # roms THEN RebuildNav ELSE UNCHANGED nav

\* restore, of a version of any variant: its ROM is recorded again, an empty file if
\* it has none.
RestoreSelected(version) ==
  /\ panelOn /\ Room
  /\ \E fault \in {"none"} \cup Faults :
       /\ May(fault, {"refused", "cut", "commit"})
       /\ files' = Write(files, "project", roms[version], fault)
       /\ IF fault = "refused" THEN UNCHANGED <<roms, lines, index>>
          ELSE Commit(files'.project, fault)
  /\ UNCHANGED <<head, panelOn, made>>
  /\ IF roms' # roms THEN Reload /\ RebuildNav ELSE UNCHANGED <<doc, nav>>

\* A slip: the oldest version made again without its parents.
RenameSelectedRootless(n) ==
  /\ panelOn /\ Len(roms) + n <= MaxVersions
  /\ roms' = roms \o [i \in 1..n |-> roms[lines[head][n + 1 - i]]]
  /\ lines' = [lines EXCEPT ![head] = [i \in 1..n |-> Len(roms) + n + 1 - i]]
  /\ failed' = FALSE
  /\ UNCHANGED <<files, doc, head, index, panelOn, nav, made>>

\* rewordCommit: the n newest versions of the variant are made again.
RenameSelected(n) ==
  /\ panelOn /\ Len(roms) + n <= MaxVersions
  /\ roms' = roms \o [i \in 1..n |-> roms[lines[head][n + 1 - i]]]
  /\ lines' = [lines EXCEPT ![head] =
                 [i \in 1..n |-> Len(roms) + n + 1 - i] \o SubSeq(@, n + 1, Len(@))]
  /\ failed' = FALSE
  /\ UNCHANGED <<files, doc, head, index, panelOn, nav, made>>

\* External: git_checkout_head with GIT_CHECKOUT_SAFE leaves a file that differs
\* from the baseline, which is HEAD.
CheckoutSafe(file, baseline, target) == IF file = baseline THEN target ELSE file

\* Work in progress is recorded on the variant left; HEAD moves, then is checked out.
SwitchVariant(v) ==
  /\ panelOn /\ lines[v] # <<>> /\ Room
  /\ UNCHANGED <<panelOn, made>>
  /\ \E fault \in {"none"} \cup Faults :
       LET saved == Flushed(fault)
           dirty == saved.project # Tip \/ index # Tip
           target == roms'[lines'[v][1]]
       IN
       /\ May(fault, SaveCalls \cup IF dirty THEN {"commit"} ELSE {})
       /\ IF dirty THEN Commit(saved.project, fault) ELSE UNCHANGED <<roms, lines, index>>
       /\ \/ /\ fault = "commit"
             /\ files' = saved /\ doc' = FlushedDoc(fault)
             /\ UNCHANGED <<head, nav>>
          \/ /\ fault # "commit"
             /\ head' = v
             /\ files' = [saved EXCEPT !.project = CheckoutSafe(@, target, target)]
             /\ Reload /\ RebuildNav

\* createBranch: HEAD moves to a new name of the same version.
CreateVariant(v) ==
  /\ panelOn /\ lines[v] = <<>>
  /\ lines' = [lines EXCEPT ![v] = lines[head]] /\ head' = v
  /\ failed' = FALSE
  /\ UNCHANGED <<files, roms, index, panelOn, made>>
  /\ Reload /\ RebuildNav

\* loadVersionIntoDoc, from the files fs and the document d: a version without a
\* ROM changes neither; a file not written, or written short, is loaded all the same.
GoTo(chain, pos, fs, d, fault) ==
  LET rom == roms'[chain[pos + 1]] IN
  /\ \/ rom = Empty /\ files' = fs /\ doc' = d
     \/ /\ rom # Empty
        /\ \E held \in IF fault = "reload" THEN {fs.project, Cut} ELSE {rom} :
             files' = [fs EXCEPT !.project = held]
        /\ Reload
  /\ nav' = Arrows(chain, pos)

\* What is not saved is saved and recorded first; going back does not depend on it.
\* On the oldest version, the arrow is enabled by the edits alone: once they are
\* recorded, what they were made on is one version behind.
Undo ==
  /\ CanUndo /\ Room
  /\ UNCHANGED <<head, panelOn, made>>
  /\ \E fault \in {"none"} \cup Faults :
       LET captured == Unsaved /\ fault # "refused"
           chain == IF captured THEN lines'[head] ELSE nav.chain
           pos == IF captured THEN 0 ELSE nav.pos
           older == pos + 1 < Len(chain)
       IN
       /\ May(fault, SaveCalls \cup IF captured THEN {"commit", "reload"} ELSE {"reload"})
       /\ IF captured THEN Commit(Flushed(fault).project, fault)
          ELSE UNCHANGED <<roms, lines, index>>
       /\ fault = "reload" => older
       /\ IF older
            THEN GoTo(chain, pos + 1, Flushed(fault), FlushedDoc(fault), fault)
            ELSE /\ files' = Flushed(fault) /\ doc' = FlushedDoc(fault)
                 /\ nav' = Arrows(chain, pos)

Redo ==
  /\ CanRedo
  /\ UNCHANGED <<repoVars, panelOn, made>>
  /\ \E fault \in {"none"} \cup Faults :
       May(fault, {"reload"}) /\ GoTo(nav.chain, nav.pos - 1, files, doc, fault)

-----------------------------------------------------------------------------

Document == Edit \/ (\E path \in {"project", "outside"} : SaveRom(path)) \/ OpenRom \/ LoadFromData

Versions ==
  \/ CommitCurrent \/ Undo \/ Redo
  \/ \E v \in Variants : SwitchVariant(v) \/ CreateVariant(v)
  \/ \E v \in Variants : \E i \in 1..Len(lines[v]) : RestoreSelected(lines[v][i])
  \/ \E n \in 1..Len(lines[head]) : RenameSelected(n)

Next == Document \/ OpenProject \/ ImportRom \/ AutoSave \/ CloseEvent \/ Versions

Spec == Init /\ [][Next]_vars

-----------------------------------------------------------------------------
(* Properties. *)

Roms == {Cut, Empty} \cup 1..made

FilesOK == files \in [project : Roms, outside : Roms]

DocOK == doc \in [rom : Roms, path : {"none", "project", "outside"},
                 managed : BOOLEAN, modified : BOOLEAN]

RepoOK ==
  /\ roms \in Seq(Roms) /\ index \in Roms
  /\ lines \in [Variants -> Seq(1..Len(roms))]
  /\ head \in Variants /\ lines[head] # <<>>

NavOK ==
  /\ nav \in [chain : Seq(1..Len(roms)), pos : Nat]
  /\ panelOn => nav.pos < Len(nav.chain)

\* The type invariant; every version a variant or the arrows name exists, and the
\* arrows stand on one.
TypeOK ==
  /\ FilesOK /\ DocOK /\ RepoOK /\ NavOK
  /\ panelOn \in BOOLEAN /\ failed \in BOOLEAN /\ made \in Nat

RomsOf(line) == [i \in 1..Len(line) |-> roms[line[i]]]
OnProject == doc.managed /\ doc.path = "project"
Kept == UNION {{roms[lines[v][i]] : i \in 1..Len(lines[v])} : v \in Variants}

\* "aucun etat sauvegarde n'est jamais perdu" (test_git_manager.cpp:31): a ROM that
\* a variant's history holds is held for ever, through undo, restore, renaming and
\* changes of variant, whatever fails.
HistoryKept == [][Kept \subseteq Kept']_vars

\* The arrows walk the history of the variant shown: up to versions they have not
\* been told of, the same ROMs in the same order.
NavInLineage ==
  panelOn => \E n \in 0..Len(lines[head]) :
    RomsOf(nav.chain) = SubSeq(RomsOf(lines[head]), n + 1, Len(lines[head]))

\* "Les editions en cours sont d'abord capturees comme une version" (git_panel.h:65):
\* after an undo of edits made on the project, from any version and the oldest one
\* too, the redo arrow is enabled and gives them back.
RedoGivesBack ==
  [][~failed' /\ doc.path = "project" /\ Unsaved /\ Undo
       => CanRedo' /\ roms'[nav'.chain[nav'.pos]] = doc.rom]_vars

\* Edits on the project are in the history once the autosave, the closing of the
\* application or a change of variant has passed, if nothing failed.
EditsCaptured ==
  [][~failed' /\ OnProject /\ Unsaved /\ panelOn
     /\ (AutoSave \/ CloseEvent \/ \E v \in Variants : SwitchVariant(v))
       => doc.rom \in Kept']_vars

\* "Les editions en cours sont d'abord capturees comme une version pour ne rien
\* perdre" (git_panel.h:64): the ROM edited in a project is somewhere after an undo,
\* in a version or in a file.
UndoLosesNothing ==
  [][~failed' /\ OnProject /\ IsLoaded /\ Undo
       => doc.rom \in Kept' \cup {files'.project, files'.outside}]_vars

\* "Bascule sur la variante selectionnee dans le selecteur et recharge l'etat"
\* (git_panel.h:57): the ROM loaded is the variant's last version.
VariantLoaded ==
  [][~failed' => \A v \in Variants : SwitchVariant(v) => doc'.rom = roms'[lines'[v][1]]]_vars
=============================================================================
