# ECU Studio Suite in TLA+

This directory holds TLA+ models of the parts of ECU Studio Suite whose
behaviour depends on the order of events or on what fails: the ELM327 driver and
the applications over it, the MPPS programmer, the measures on the bus, the
versions of a ROM and the projects on disk, the panels that edit a ROM or a
recipe, the updaters, and what Android adds to them. TLC checks them on small
instances and TLAPS proves some of their properties for every instance. Paths
are relative to `src/`.

## 1. The system

Two Qt applications, ECU Studio (desktop: ROM editing, versions, OBD panel, MPPS
programmer) and ECU Drive (phone or car: a driving session over OBD), share the
libraries `elm327`, `ecu-core`, `mpps` and `ecu-mcp`. Almost everything runs on one
Qt thread: an operation is a slot run to its end, and what makes the code hard is
the order in which timers, answers, socket errors, dialogs and the user's calls
reach the slots.

| Component | State | Operations | Talks to | Hard parts | Correct when |
|---|---|---|---|---|---|
| ELM327 driver (`libs/elm327`) | transport, opening/ready, queue, command in flight, four timers, poll list, probe, CAN mode | connect (serial, CDC-ACM, device, Bluetooth), disconnect, commands, polling, CAN monitor | the dongle; clients by signals | timeouts and retries; lambdas that outlive their connection; late and unasked answers | an answer goes to its command, nothing is stranded, an opening ends, link signals alternate |
| Security access (same file) | listeners on `rawResponse` | `sendSecurityAccessRequest` | driver, client | listeners hear any answer and outlive the link | a success is the ECU's answer to the key; a request gets its result |
| ECU Drive controller (`apps/ecu-drive`) | link flags, PIDs supported, session, page, trouble codes awaited | connect, session, tune, page, codes, raw command | driver, user interface, Android service | four causes restart the polling; two signals explain one loss | codes are read alone, polling resumes, a loss is explained |
| Tune validation (`TuneValidation.cpp`, `MapSampler.cpp`) | rules, last verdicts, streaks, beep | load a tune, judge a snapshot, record | ROM, recipe, both applications | rules, PIDs asked and values read are three functions | what is polled is enough, what is expected is what the map holds, the banner follows the last results |
| OBD panel (`obd_panel.cpp`) | as the controller, with reconnection and modal dialogs | as the controller, datalog, CAN monitor | driver | a reconnection timer against the user; slots that wait in a dialog | what is shown as measured is measured; a lost link is tried again |
| ROM document (`rom_document.cpp`, `main_window.cpp`) | bytes, path, managed, modified | edit, open, load, save, autosave, close | files, versions panel | two notions of "saved"; timers during dialogs; writes that fail | edits are never lost silently |
| Versions and variants (`git_panel.cpp`, `GitManager.cpp`) | repository, HEAD, index, undo chain and position | commit, restore, rename, undo, redo, switch, create | document, libgit2 | partial failures; HEAD, index, file and document out of step | what is recorded is kept, arrows walk the lineage, a variant loads its ROM |
| Projects (`ProjectManager.cpp`, `project_panel*.cpp`) | folder, metadata, slots, list | create, open, import, duplicate, edit, delete | files, document | several writes one after the other, unchecked | a factory dump is never written over, the list tells what there is |
| Map editor (`map_editor_panel*.cpp`) | list of maps, grid, offsets noted, baseline | select, type, scale, Stage 1, ghost | document | a grid read earlier than it is edited | the grid is what the ROM holds |
| Recipe editor (`damos_editor_panel*.cpp`) | recipe, row, form, file, dirty mark | select, type, add, delete, open, save | files | signals of a selection that does not change | the form shows the row it writes |
| Patching and relocation (`automods_panel*.cpp`, `OpenDamos*.cpp`) | ROM bytes | apply, restore, relocate | document | searches whose answer depends on what was written before | restoring gives the bytes back, one map per address |
| Checksums (`checksum_panel.cpp`, two engines) | areas and sums | examine, correct | document | areas inside areas | a corrected sum verifies |
| Tune package (`TunePackage.cpp`) | entries, sums | write, read | both applications | a file damaged on its way | the ROM read is the ROM exported |
| MPPS (`libs/mpps`, `mpps_panel.cpp`) | USB handle, claimed, connected, pending write | connect, read, write, disconnect | USB, worker thread | failure half way; a worker beside the slots | no ROM half written goes unnoticed |
| Verification on the bus, CAN panel | sub-process, socket, timers; capture thread | start, sample, stop | other tools | an answer after the dialog gave up | a verdict belongs to its run; a run ends |
| Updaters (both applications, hub's tools) | manifest of the last check, reply, file | check, download, verify, install | network, files | stale manifest; several windows; install half way | only what was verified is installed, and who waits is told |
| Android helpers | socket and threads; service, wake lock | connect, close; start, stop | Java threads, Android | a thread that outlives its attempt; commands delivered later | the dongle and the wake lock are let go |
| MCP server | open project | requests on standard input | ecu-core | little: sequential | each request gets one answer |
| Importers, map search; user interface; submodules | - | - | - | sequential or rendering, or not in the tree | left to unit tests |

`PROJECT.json` lists the components with what is left out of each, and the hazards
of this code at their lines, each with the properties that would catch it.

## 2. Modules

| Module | Models | State and actions |
|---|---|---|
| `Elm327` | `Elm327.cpp` | Variables are the members (`busy` is `m_busy`, ...). `later` counts the `singleShot` lambdas, fresh or stale by the `m_connectEpoch` they captured. `wire` is the dongle. An action is a slot or a call; the operators `SendNext`, `Down`, `FailConnect`, `TryNextBtAttempt` are the functions they call. `signals` holds what the step emitted, delivered before anything else. |
| `ElmLink` | what a listener may count on | Phases of the link and the link signals told; `Elm327!LinkSpec` maps the driver onto it (`INSTANCE ElmLink WITH phase <- Phase, told <- LinkTold`). |
| `Elm327Security` | `sendSecurityAccessRequest` | Extends the driver with counted listeners; `SecurityDeliver` takes the place of `Deliver`. |
| `DriveController` | `drive_controller.cpp` | Extends the driver; the slots of the constructor take the place of `Deliver`, the user's calls that of the client. |
| `ObdPanel` | `obd_panel.cpp` | Stands on `ElmLink`, which the driver was shown to implement. `panel` is a record of the members; `dialogs` holds the rest of each slot that waits in a modal dialog, run when it closes on the state of that moment. Of the rules it keeps their categories: `boxes` ticked, `loaded` with the tune, `ticked` enabled, `asked` when the session began. |
| `TuneValidation` | `TuneValidator`, `MapSampler.cpp`, the recorder | Operators over a tune and a snapshot of the PIDs (rules, PIDs required, lookup, verdict, summary), and the variables they are applied to; `yMode` is the axis mode of the panel, the load or the axis of the recipe. |
| `BoostBanner` | `StatusHysteresis`, `maybeAlert`, `maybeAlertFail` | A result is an action; `fails`, `oks` and `unheard` record what the results really were. |
| `LoggingService` | `LoggingService.java`, `platform.cpp`, the controller's watchdog | `calls` are posted to the main thread of Android, `commands` are what Android then gives the service; kills and refused starts are bounded by `MaxMishaps`. |
| `AndroidBt` | `BtRfcommHelper.java` and the Android branches of `Elm327.cpp` | A thread per attempt, where it is in `connect`, and the one static socket. |
| `Mpps` | `libs/mpps`, `mpps_panel.cpp` | `step` is the call of `sendCommand` being made by the main thread or by the worker; `wire` holds the commands whose answer nobody took. The worker gives the `verdict` itself, by `log()`, and posts the end of its run; `refused` are the blocks the dongle refused. |
| `BusVerification` | `verify_on_bus_dialog.cpp`, `can_tune_validator.cpp` | The slots of process, socket and timers; `batch` is what is left of a `readyRead`. `tool` says which of the two it is. |
| `CanPanel` | `can_panel.cpp` | Capture thread, its flag, its posted messages and the buttons. |
| `RomVersions` | `RomDocument`, autosave and menus, `GitPanel`, `GitManager`, `importRom` | A ROM is a number, a version the index of its ROM, a variant its first-parent lineage. A fault is one call of the step that fails: a file that cannot be written or is written short, a commit, the version gone to. `failed` says that the last step had one. The arrows are lit (`CanUndo`, `CanRedo`) by the position in `nav` and the modified flag, as `emitNavState` has it at every change of that flag. |
| `Projects` | `ProjectManager.cpp`, `project_panel*.cpp`, `rom_document.cpp` | A project is a record of its files; each operation may be stopped after any of its writes, and each write may be cut. |
| `MapEditor` | `map_editor_panel*.cpp` | `row`, `shownAt`, `shape`, `grid`, `reference` are the members that remember what was read; the ROM may change under them. |
| `DamosEditor` | `damos_editor_panel*.cpp`, `OpenDamos.cpp`, `OpenDamosSerialize.cpp` | `picked` and `form` for each of the two pages; a selection signal comes only when the selection changes. |
| `Relocation` | `OpenDamosRelocate.cpp` | Operators: candidates by fingerprint, scores, attribution one after the other, anchors. |
| `AutoMods` | `automods_panel*.cpp`, `OpenDamosRecipes.cpp`, `RomPatcher.cpp` | Extends `Relocation`; a selection of the catalogue is applied or restored on the ROM as it is. |
| `Checksums` | `checksum_panel.cpp`, `ChecksumEngine.cpp`, `Edc17Checksum.cpp` | An image with its areas; examining and correcting in the order of the code. |
| `TunePackage` | `TunePackage.cpp`, `exportEcutune` | `WriteZip` and `ReadZip` over sequences of cells, and every archive cut or damaged in one cell. |
| `StudioUpdater`, `DriveUpdater`, `HubTools` | the three updaters | Replies, windows or buttons, and files. `StudioUpdater` may be killed between two steps of the installation. |
| `Elm327Proofs`, `ElmLinkProofs`, `SecurityProofs`, `DriveProofs`, `PanelProofs`, `HardwareProofs`, `RomProofs`, `FilesProofs` | theorems (section 4) | `ElmLinkProofs` and `DriveProofs` stand on `Elm327Proofs`, `SecurityProofs` on `ElmLinkProofs`; `HardwareProofs` has the parts of `MCHardware` one after the other, then the whole, and `FilesProofs` those of `MCFiles`. |
| `MCHardware`, `MCFiles` | compositions for TLC | The parts share no state in the code, so a behaviour is one of one `part` while the others stay as they began; `MCHardware` has the parts that face hardware or another process, `MCFiles` those that work on files and ROMs. They also define the small tunes, recipes, images and lists. |
| `MCElm327`, `MCElm327Security`, `MCDriveController` | values TLC needs that a cfg cannot write | |

Three compositions follow the code: `Elm327Security` and `DriveController` run with the
whole driver in one state machine, `AutoMods` relocates with `Relocation`, and `ObdPanel`
runs over `ElmLink`, the abstract link that `elm_clients` shows the driver to implement.

Operators preceded by "A slip" are variants of a definition with one plausible mistake;
`PROJECT.json` ("mutants") names them with the property that each breaks. They are in no
specification.

## 3. Runs

Every bound is a constant, or a definition that says "bound", in a guard. All the passing
runs are exhaustive.

| Run | Question | Bounds, and why they are enough |
|---|---|---|
| `elm_links` | Through three transports, late answers, unasked prompts, polling, the monitor and disconnections, is the driver's own state coherent; does an opening end; does the queue drain? | Two connect calls pending, so that a lambda of the first fires in the second, serial or Bluetooth; one unasked prompt per opening; a queue of one client command (polling and initialisation add theirs); two commands remembered by the dongle, the fewest for a late answer to cross the next command. |
| `elm_clients` | With every call of a client on a dongle in time or silent, do answers match, is the driver an `ElmLink`, does security access conclude, and with an earned success? | One client command waiting behind one in flight; two listeners; a client that during an access keeps its link and sends no other raw command, but polls and queries. |
| `drive_session` | Do controller and driver agree, and is what is polled what the page or session needs? | Two PIDs, so that sets differ; all pages, tunes, sessions; a raw command. |
| `drive_dtc` | Are codes read alone, and does polling resume? | Two PIDs, three pages, both modes, the 50 ms rebuild. |
| `drive_bluetooth` | Does every failed or lost link show a dialog? | One PID: the error can strike in every phase, before and during a session. |
| `rom_versions` | Is recorded work kept, do the arrows walk the lineage, are edits captured? | Two variants, two edits or imports, two versions beside the first two, a save or a commit that fails at any of its calls: undo, edit, undo, an undo of edits on the oldest version, and edit, switch, come back fit in. |
| `studio_hardware` | The parts that face hardware or another process, below. | Two dialogs open at once (a loss during the summary of a loss); a ROM of two blocks written twice, two answers not taken; two runs of a verification, three questions each; two threads of Bluetooth; three calls for the service and two mishaps; two tunes whose rules and axes take every branch; the boxes of two categories, one of them the route's, the fewest for a filter to add, take away and swap rules; settings 1 to 3, streaks to 8, more than twice the largest setting and past `m_okNeed` (5, 3 here). |
| `studio_files` | The parts that work on files and ROMs, below. | Two releases and two starts; two tools; three versions of the phone's application; ROMs of seven words, every one of them for the relocation; three modifications in a row; two edits of a grid; three changes of a recipe with three rows; areas one inside the other; every archive of two words cut or damaged; two projects, two slots, four operations on the disk. |
| `drive_dtc_lock`, `rom_undo`, `rom_variant`, `mods_restore` | The four disagreements below. | The smallest instances that show them. |

What the properties of the two composed runs say of their parts:

| Property | Parts |
|---|---|
| `PanelAgrees` | OBD panel: connected means ready, nobody is connecting unasked, the buttons tell which. |
| `AcquisitionsSound` | `AcquisitionsReal` (a session, datalog or monitor shown is what the driver does), `DriveModeMeasures` (drive mode needs no other action, whatever came first, and its session polls all it judges, but in two cases it names: `gained`, `changed`), `VerdictsSound` (PIDs polled are enough for every rule and no verdict would be another without the rest, what is expected lies between the cells around and near the nearest, the summary adds up). |
| `WorkerAlone`, `TornIsTold` | MPPS: the worker has the device to itself; an ECU left between two ROMs is told, whatever answer was lost, late or empty; refused blocks are left out by name (`refused`). |
| `AnswersAreOfThisRun` | Verification: no sample of an earlier run gets into the verdict of another. |
| `PhoneLetsGo` | `DongleLetGo` (the helper holds no socket once the driver gave up and the threads are through), `WakeLockReleased` (a phone without a session may sleep). |
| `RedAfterFailures`, `GreenAfterOks`, `Heard` | Boost banner: red at the threshold, green only after enough Oks, failures are heard within twice the setting. |
| `Reconnects`, `MeasuresEnd` | A lost link is tried again; a verification ends, a dead capture gives its buttons back, a session that lasts is kept awake again. |
| `UpdatesSound` | `AppImageWhole` (killed anywhere, the AppImage is whole), `ApkOffered` (ready means in the cache, newer and the one named), `NotesShownOnce`. |
| `DownloadsConclude` | `WindowsAreTold`, `ButtonsComeBack`: who waits for a check or a download is told of an end. |
| `EditsMarked` | A ROM changed by modifications, the map editor or a correction is marked, and so is a recipe. |
| `EditorInStep` | The grid and the ghost are what ROM and baseline hold; the recipe's form shows the row it will write. |
| `RomWorkSound` | One map per address, a stock ROM stays, values follow their anchor; corrected sums hold; a package gives its ROM or is refused. |
| `ProjectsSound`, `DumpsKept` | The list tells what there is, a project that says it has a ROM has one; an original is never written over. |

Deadlock is checked in every run but `studio_files` and `mods_restore`, whose parts stop at
their bounds.

**Fairness.** `Elm327!Fairness` is weak fairness of what Qt's event loop owes: an
emitted signal reaches its slots, a timer that stays armed fires, a lambda that stays
scheduled runs, and the failure of a Bluetooth connection without an address is
reported. The user, the dongle and the radio owe nothing, and the liveness properties
hold with a silent dongle: `OpeningEnds` assumes only that the user stops calling
connect, `QueueDrains` only that he stops asking. `SecurityConcluded` rests on the
delivery of signals and the answer timer alone, and on `Patient`. `PanelFairness` is the reconnection timer
and what the driver was shown to do; `BusFairness` the timers and the events that Qt owes
of a process and a socket, never an answer; `CanFairness` the capture thread and the
posted messages. `UpdaterFairness` and `HubFairness` assume that a network request
finishes, one way or another: `QNetworkReply` emits `finished` in every case the code
relies on. `ServiceFairness` is the watchdog's timer, the main thread of Android and the
delivery of its commands.

### Disagreements between code and text

* `drive_dtc_lock` - a mode 03 or 07 request that times out, or whose link goes, leaves
  `m_dtcAwaiting` above zero: codes are never read again, and nothing is polled, until
  the application restarts.
* `rom_undo` - an edit saved to `rom.bin` without a version (Ctrl+S, or a version whose
  message was cancelled) is overwritten by the next undo and is nowhere.
* `rom_variant` - `switchBranch` moves HEAD before a SAFE checkout, which then takes
  `rom.bin` for the user's change: the variant's ROM is not loaded, and the next version
  records the other variant's ROM on it. This rests on `CheckoutSafe`, the documented
  behaviour of libgit2, which is not in this tree.
* `mods_restore` - a pattern is taken back where its replacement is found first, which
  need not be where it was applied: another place is overwritten and the modification
  stays.

### Seen while modelling, without a run of their own

The driver and its clients:

* An answer that comes after its timeout is reported for the next command
  (`Elm327.cpp:549`). A block of the PID probe left unanswered never lowers
  `m_supportRemaining`, so that `supportedPidsReady` is not emitted and polling does not
  start (673). A listener of an earlier security request takes the next raw answer for the
  verdict on a key (843), and so does the listener of a link lost during an access, or one that
  hears a raw command sent during it; a security request whose link goes gets no result. The
  properties of security access leave these out by name (`Patient`).
* The beep may need up to twice the setting in failures when warnings interleave, and a
  setting changed in a session moves the beep and not the banner (`obd_panel.cpp:351`).
* On Android a failing or late attempt's `close()` ends the socket of a newer attempt; a
  socket overwritten is left to the finaliser; a lost link closes the device without telling
  the driver.
* `LoggingService`: a stop followed by a start may destroy the service after the start has
  come, and 15 s go by without a wake lock; a process that ends during a session leaves a
  service that Android starts again with a null intent and that nobody stops
  (`LoggingService.java:25-30` ties it to a session). `WakeLockReleased` leaves that
  case out by name (`orphan`).
* Verdicts: a load not measured yet counts as 0 and the low rows judge (`TuneValidation.cpp:364`);
  the last value of a PID that stopped answering stays; three failures may come from one
  measure of pressure, as every answer judges again; units are compared by name and case, so
  that a map in kPa is compared with mbar and "mg/Hub" gets another tolerance than "mg/hub";
  a falling axis always clamps; the recorder takes the last boost map and the banner the first.
* OBD panel: the summary of a session keeps the slot that opened it waiting; closed after the link
  has changed, it lets that slot go on with what belonged to the former link: the buttons of a
  disconnected panel while connected, a datalog that the driver refuses (`late`).
  A filter of categories, the route preset among them, makes the rules again and leaves session,
  polling and button as they were (`obd_panel.cpp:1761`): a session for {air} goes on polling MAF
  when the preset leaves {boost}, or with no rule at all when that empties them; a tune made ready
  by its boxes alone gets no session in drive mode. `DriveModeMeasures` leaves both out by name.
* ECU Drive: a tune loaded during a session changes the validator but neither the session's
  identity nor its columns, and one that fails to load clears it while the page still shows the
  former.

The programmer and the bus:

* MPPS: the handle of a failed handshake stays claimed (`MppsDevice_libusb.cpp:102`), so that
  connecting needs a restart; an answer to the exit given up shifts the next ROM read (175); the
  code of a refusal is not looked at (287), so that a refused block counts as written; the worker
  appends to the log's widget from its own thread (`mpps_panel.cpp:221`); the panel is not in the
  sidebar at this commit (`main_window.cpp:139-144`).
* Verification: `readyRead` goes on after a verdict and may give a second one; the criterion is
  read when the answer comes; a stale 150 ms lambda may fail a later run; what a stopped run left
  in the buffer stays over a reconnection.
* CAN panel: a posted error of an earlier capture may stop a later one.

ROMs, recipes and projects:

* `createVariant` drops unsaved edits, as `openProjectById` and `restoreSelected` do; after
  "Ouvrir ROM" the panel keeps its project, and its undo writes the file opened; restoring a
  version without a ROM leaves an empty `rom.bin`.
* Map editor: loading a ROM or another ECU forgets the row and leaves the grid
  (`map_editor_panel.cpp:338`): the cells of the ROM before stay editable and are written in
  the one now open, and the ghost, a new baseline or "Stage 1 complet" then read
  `m_entries[-1]` (the variable `crashed`). `GridInStep` holds until then (`inStep`). A text
  that is no whole number stays shown; the other panels' changes leave the grid as it was.
* Recipe editor: deleting a row that is not the last, or opening a file while the first row is
  selected, keeps the selection on the same row, so that no signal comes and the form keeps
  what it showed: the next change of a field writes all of it over the new row
  (`damos_editor_panel.cpp:607`). `FormInStep` leaves that case out by name (`behind`). Any
  change drops the addresses of separate axes; opening a file drops unsaved changes without
  asking while "Nouveau" asks; a search in vain clears the dirty mark.
* Modifications: restoring by address asks nothing of what is there; relocation depends on the
  value it looks for, so that restoring may go elsewhere; twins closer than the largest shift
  may be swapped; `std::sort` gets a comparison that is no strict weak order; a recipe that
  fails half way leaves what it wrote; applying a pattern twice may hit a second place.
* Checksums: validity is taken before any correction, so an outer area right by chance around a
  wrong one is broken and reported corrected (`Edc17Checksum.cpp:258` says otherwise), which a
  second correction repairs: `Orderly` leaves it out. Two areas that end together overwrite each
  other. The generic mode's default place for the sum is inside its default region.
* Projects: the original of a duplicate is the tuned ROM of its source; a full disk cuts the
  metadata and the project disappears from the list though the operation reports success;
  importing over the open project leaves the old document, which the autosave then writes over
  the import; a project opened without a ROM leaves the document of one and the ECU of
  another; Ctrl+S in another place keeps `m_managed`, so that the autosave writes there.
* Package: the sums of the archive's entries are not read; a damaged recipe, note or ECU id
  passes, only the ROM is compared.

Updaters: the button stays disabled after a failed download, two instances share a temporary
path, a tool written short is announced ready, an APK without the permission to install hides
its banner, and the last flush of a download of ECU Drive writes nothing, for the reply is
already forgotten.

## 4. Proofs

TLAPS proves each theorem for every value of the constants that the named assumption of its
module allows. Those ask for no more than finite, non-empty or disjoint sets and natural
bounds (`DriveAssumption`: that the catalogues of PIDs be finite); TLC evaluates them in the
runs. A theorem that holds only of some drivers or devices states its hypothesis itself; the
table says what goes wrong without it, and the runs of the property have values that satisfy it.

| Theorem | Says | Along which argument |
|---|---|---|
| `Elm327Proofs!TypeCorrect` | Every state of the driver has its type. | Each slot is a composition of the functions it calls; a lemma per function, then one step per action. |
| `Elm327Proofs!PipelineServed`, `NeverStranded` | A command in flight is timed (`BusyIsTimed`); an idle link has nothing waiting (`NothingStranded`). | `Served` is inductive: `sendNext` is the only place that starts a command, it arms the timer in the same step, and every place that ends a command, or empties or fills the queue, comes back to it. |
| `Elm327Proofs!PhasesCorrect` | `PhasesAgree`: ready, opening and idle agree with the transport, the timers and the polling, on every transport. | `Phased` adds that only the initialisation is queued while the link opens, from ATZ on until it is sent, and nothing while it is down (`Initialising`), that a socket which connects was sent nothing (`SocketsFresh`), and that the lambda of `onBtConnected` is fresh only while its attempt opens (`Settling`). Hypothesis `"bt" \notin Chatty`: a prompt sent unasked before that lambda is counted with `m_initStep` of the session before, which may make the link ready and have the lambda's `beginInit` clear `m_ready` again. |
| `Elm327Proofs!AnswersCorrect` | `AnswersMatch`: the answer awaited is the answer to `m_current`. | `Matched` adds that no prompt is to come unasked and that no monitor is running or queued. Hypothesis `InTime` (no late answers, no unasked prompts, no CAN monitor): without it the property is false, as section 3 says. |
| `ElmLinkProofs!LinkImplemented` | Every step of the driver is a step of `ElmLink` or a stutter (`LinkSpec`). | `Straight` counts what the opening has left (`initStep` + queue + command in flight = 6), so that `connected` is said once; then a lemma per function on the link signals it leaves (`Tells`), and one step per action. Hypothesis `Prompted` (no Bluetooth, no unasked prompts): either makes the driver say `connected` twice. Answers may be late. |
| `SecurityProofs!SuccessEarned` | `SuccessIsEarned`: an unlock told as a success is the ECU's positive answer to the key. | `Waiting` follows the raw commands from the queue to the answer not heard yet: while the seed's listener waits there is one, the seed request; while the key's waits, all are the key. `Timed`: the timer runs out only on a command in flight. What the client may poll and query meanwhile queues no raw command (`QueryingCalm`). Hypotheses: `Patient` (during the access the client keeps its link and sends no other raw command), `InTime` and `Prompted`; without them a listener may hear the answer of another command, or of a later link: the theorem says nothing of those. |
| `DriveProofs!DtcsAreAlone` | ECU Drive polls nothing while codes are awaited. | `DtcsAlone` alone is not inductive: an initialisation that ends starts polling again if a list was left. `NoPollList` (none is left while codes are read or cleared) and `Awaited` (the counter stays within one reading) make it so. |
| `DriveProofs!LinkAgreed` | `LinkAgrees`: page, session and driver agree once the slots have run. | `Linked` says what holds while signals wait: `connected`, `linkUp` and the wish to disconnect follow from the driver's state and the signals not handled yet. Lemmas say which signals (`Says`) each of the driver's functions adds. |
| `DriveProofs!LossesExplained` | `LossExplained`: every failed connection and every lost link shows a dialog. | `Explained`: an error on a link shown as up leaves its `disconnected` waiting, and the reason it kept until then. |
| `DriveProofs!PollingIsResumed` | `PollingResumes`: a connected ECU Drive with nothing else to do polls. | `Resumed` names who polls again: a probe, a reading of the codes or a signal that waits. |
| `DriveProofs!PollingFitting` | `PollingFits`: what is polled suits the page and the session. | `Fitting` says it of the list kept as well, which `processInitStep` polls again without asking anybody. |
| `PanelProofs!PanelKnows` | `PanelAgrees`, and the parts `AcquisitionsReal` and `DriveModeMeasures` of `AcquisitionsSound`, with `PanelTypeOK`, for any number of dialogs open. | `Known` says what holds while signals wait and dialogs are open: of the link (`LinkKnown`), the buttons, the acquisitions, drive mode, and that only the dialog opened last may be of the present link (`DialogsKnown`). `Asks` says what a session polls: until a rule is changed under it, all that the rules enabled need. The two cases that `DriveModeMeasures` leaves out stay out. |
| `HardwareProofs!BannerTyped`, `FailuresShow`, `OksShow` | The banner follows what the results were. | The type invariant ties the counters to the history: `okStreak` counts exactly the Oks in a row, `failStreak` at least the failures (a warning does not reset it). `Red` (at the threshold the banner is red, whatever made the failures) is then inductive. |
| `HardwareProofs!FailuresAreHeard` | `Heard`: a boost that keeps failing beeps within twice the setting. | `Hearing`: the failures not heard reach over at most one multiple of the setting, that of the last beep. The arithmetic of remainders is in lemmas. Hypothesis `~Adjustable`: the setting is that of the start, as in ECU Drive. |
| `HardwareProofs!MppsTyped`, `WorkerIsAlone`, `TornIsAlwaysTold` | The worker has the device to itself; a write told as a success settles every block that was not refused on the ROM. | `Alone` ties the job to the step of the device. `Progress` says which blocks hold the ROM at each step of a write, and what verdict may then be given: `Decided` is what a block settles on, without the choice of `Settles` (`DecidedSettles`), and sending, answering and receiving keep it. |
| `HardwareProofs!BusTyped`, `AnswersStayInRun` | A sample counts in the run that asked it. | `BetweenRuns`: between two runs nothing is asked and no socket is on its way. Then what is asked, buffered or being handled is of the present run. |
| `HardwareProofs!DongleIsLetGo` | The Bluetooth helper holds no socket once the driver is idle and its threads are through. | `Held`: while the helper has a socket, the driver it serves, a thread about to post its success, or that result posted will let it go. |
| `HardwareProofs!PhoneMaySleep` | The wake lock is free once nobody drives and Android has done what it was asked. | `Stopped`: in what is still to be called or done, the last word is a stop when nobody drives; `orphan` is the exception, told of in section 3. It needs no fairness. |
| `HardwareProofs!VerdictsHold` | `VerdictsSound`, for every tune, axis mode and measure: what is polled is enough for each rule, and no verdict would be another without the rest (`PolledHolds`), what a map is said to hold is near the cells around, the summary adds up. | `BracketIs` and `NearestIs`: on an axis that rises a target is between two neighbours or beyond an end, and the nearer of them weighs at least half (`NearerWeighs`); so the nearest of four cells weighs a quarter (`Corner`). `TickCounts`: the four verdicts part the rules, and a cell is hit when one is not "NoData". |
| `HardwareProofs!PartsAreAlone`, `HardwareTyped`, `PhoneIsLetGo`, `AcquisitionsAreSound` | Each part of `MCHardware` behaves as it does alone, with its fairness; the types of all; `PhoneLetsGo`; `AcquisitionsSound`, from `PanelKnows` and `VerdictsHold`. | `WholeStep`: a step of the whole is a step of each part, or leaves it. The theorems of the parts then hold of the whole. |
| `RomProofs!TypeCorrect`, `HistoryIsKept` | Variants name versions that exist; a ROM in a variant's history is held for ever. | `Grows`: what the histories hold only grows, and no variant loses its own. Recording (`RecordGrows`), making a variant (`CreateGrows`) and renaming, which makes the lineage again with the same ROMs (`RenameGrows`), are the cases; the rest leaves the repository alone. |
| `RomProofs!ArrowsFollow` | The undo chain stays in the lineage of the variant shown. | `InLineage` compares one version at a time. Every step makes the chain again, keeps it while the lineage grows (`LineGrows`), or closes the project: `Follows`. |
| `RomProofs!EditsAreCaptured`, `RedoIsGiven` | `EditsCaptured`, `RedoGivesBack`: edits are in the history once the autosave, the closing, a change of variant or an undo, from the oldest version too, has passed and nothing failed. | A step that failed in nothing had no fault (`NoFault`); then what is saved is the ROM edited (`SavedRom`), and recording it makes it the newest of the variant shown (`Recorded`). A change of variant may find it recorded already (`SwitchRecords`). |
| `FilesProofs!AppImageIsWhole`, `ApkIsOffered`, `HubIsTyped` | The AppImage stays whole; what ECU Drive offers is there, is the version it names and is newer, and notes are shown once; types. | `Installing`: a file verified is whole until it takes its place. `Offering` follows the version from the release heard to the file, `NotesInOrder` says that the notes to be shown are newer than those seen, and the others not. |
| `FilesProofs!FormIsOfItsRow` | `FormInStep`, but on pages in `behind`, and `RecipeMarked`, while `trusted`; `ExceptionsArise`: only deleting a row or opening a file puts a page behind, only a search or a save costs the trust. | `DamosInv`: rows, pages and forms are typed, the row selected is one there is. Storing a recipe twice is storing it once (`StoredTwice`), so a file that was read and saved is still its recipe. |
| `FilesProofs!CorrectionsHold` | `CorrectionHolds` and `SumsMarked`: a correction leaves no sum wrong. | `Solvable`: `correctCs` finds its word, since the last word of an area takes either sum to every value, whatever the others are (`LastWord`). `SmallestFirstHolds`: a correction keeps those before it, since areas do not end inside smaller ones that were corrected (`OneInside`, from `Orderly`). |
| `FilesProofs!ModsAreMarked` | `ChangeMarked`, for any catalogue. | `Outcomes`: told as no change, a modification leaves the ROM alone, and its result is a ROM. A lemma shows it of each kind, then of lists, recipes, stages and templates of them. |
| `FilesProofs!GhostStaysInStep` | `GhostInStep` and `EditsKept`, with the types of the map editor. | `EditorInv`: the shape shown is in the ROM, and the grid has its cells. `WriteKeeps` and `Reloaded` are what every operation on cells and every reading of a map come down to. |
| `FilesProofs!GridStaysInStep`, `ReadableInStep`, `EditorsAreInStep` | `GridInStep`, then all of `EditorInStep`. | An operation on cells writes no dimension of the map shown, so that its shape is read again as it was (`ReadAgain`), and the grid and the ROM take the same words (`WriteInStep`, `CellInStep`). Hypothesis `RowApart`: the map of the row is the one shown or has no cell in it; it holds in every state of the run, and of any lists while the maps selected can be read (`RowReads`, `ReadableInStep`). Without it the property is false: selecting a map that cannot be read empties the grid and leaves the address of the one before, which a toggle of the ghost shows again; when an edit then makes the map of the row readable, "%" without a selection writes that one and reads the grid again only if it is the one shown (`map_editor_panel_grid.cpp:222-261`), so that cells they share keep the texts of before. |
| `FilesProofs!ProjectsTyped`, `ListIsOfDisk`, `RomIsThere`, `DumpsAreKept` | Types; the list is what is on disk; a project that says it has a ROM has it; an original is never written over. | `Fair` says what one operation, stopped after any of its writes, may do to one project. A lemma shows it of each operation, another that `Fair` keeps the invariant and the dumps. |
| `FilesProofs!RomWorkIsSound` | `RomWorkSound`. For every ROM the relocation gives one place to one map or curve, finds each of a stock ROM where the recipe says, and lets a value follow its anchor; corrected sums hold; a package of any length that arrived whole is read as it was written, one cut is refused, one damaged gives its ROM or is refused. | Relocation: scores are percentages (`TotalRuns`), so the candidate at home with a full score is the best there is; attribution keeps, entry by entry, that no two matches have a name or an address in common and that those of a stock ROM are at home (`Attributed1`, `AtHome`). Package: where each file and its header lie (`Layout`) follows from the writing, one file after the other; a cut archive has no end; of the cells that may arrive in a damaged one only the manifest written has the kind of a manifest (`Kinds`), so whatever is read holds the sum of the ROM exported. `PackageInv`: the package is one of those that may arrive. |
| `FilesProofs!FilePartsAreAlone`, `FilesTyped`, `UpdatesAreSound`, `EditsAreMarked`, `ProjectsAreSound` | Each part of `MCFiles` behaves as it does alone; then `FilesTypeOK`, `UpdatesSound`, `EditsMarked` and `ProjectsSound`. | `FilesStep`: a step of the whole is a step of each part, or leaves it. |

`ValidationAssumption` says that a map of a tune has as many rows and columns as its axes have
values, as the relocation reads it; axes may fall, and maps may be of one row or column.

`LibraryAssumption` says of a recipe what holds of every one in `ressources/`: a name is of one entry,
an address is the default of one map or curve at most, and each of these has an axis for each of its
dimensions. `PackageAssumption` asks nothing of the lengths of a ROM, a recipe and notes.

The assumptions of `FilesProofs` give their types to what the catalogue, the recipe files, the
block tables and the ROMs on disk hold, as the parsers do; those of one run of the map editor are
of one size, and `Base` is odd, so that the abstract CRC, as the real one, depends on every word.

Lists of modifications, words and areas are folds. What a fold computes is not proved by induction
over the list: the community `FoldLeft` is a function of the finite subsets of the domain, `Minimal`
takes a smallest one where a statement fails, and `FoldRun` gives the values in between, from which
`Upward` goes from one index to the next. No module declares a RECURSIVE operator.

Left to TLC is every liveness property, which needs fairness. Every other property of a passing run is a
theorem here, some under a hypothesis that the table gives; those of the four violation runs do not
hold.

## 5. Limits

What is abstracted, everywhere: the text of commands, answers, files and messages; the bytes of
an answer; values that no property tells apart; tables, colours and wording.

Taken from outside: the dongle, Qt's event loop, libgit2 (`CheckoutSafe`), libusb, sockets,
Android's services and Bluetooth. They are modelled by what the code relies on, and `map` marks
the definitions as external.

* `m_current.kind` is not initialised before the first command: `Init` takes any kind.
* `AnswersMatch`, `ElmLink` and security access are checked on a serial port or a device
  whose dongle answers in time or never. A late answer is reported for the next command,
  and the lambdas of a Bluetooth connection are not guarded as those of the others are;
  `elm_links` has both.
* Prompts nobody asked for are kept to serial, one per opening.
* The port is chosen from a list given; its enumeration is not modelled.
* The setting of the banner is fixed in a session; "Seen while modelling" says what a change does.
* `RomVersions` has one project and one file outside it; its faults `cut` and `reload` are in the
  model and the proofs, and not in the run, for its size.
* Inside `AndroidBt` the attempts and retries are bounded as in the code.
* The exceptions that a property makes are variables or definitions with a name: `inStep`
  (map editor), `behind` and `trusted` (recipe editor), `changed`, `gained` and `late` (OBD panel),
  `refused` (MPPS), `Patient` (security access), `Orderly` (checksums) and `orphan` (Android
  service). Each stands for a case told of in section 3.

### Not modelled

* MCP server: one request after the other, each a call of `ecu-core`; no application starts
  its transport over TCP.
* Importers and map search: sequential parsing and heuristics, a function of one file; their
  model would be their code, and their unit tests reach it.
* User interface (hex view, 3D map, comparison, QML): rendering. What the user may ask of the other
  parts is in their modules.
* Socket spy and CAN core: submodules whose contents are not in this tree.
* In the parts that are "partly" modelled, what `PROJECT.json` lists as left out: gauges, freeze
  frames, actuators, notes, reports, tables, the columns of a CSV, permissions.
* Lines short enough to read: `saveToFile` does not look at the number of bytes written and
  `writeBackupOnce` trusts a backup that exists. The writes themselves are modelled, whole, short or
  failed, in `RomVersions` and `Projects`.

## 6. What could come next

* An abstract history (variants as sets of ROMs, held or dropped) that `RomVersions` implements.
* The scanning and the columns of ECU Drive's session; the freeze frames and actuators of the OBD
  panel.
* The MCP server, once an application starts its TCP transport.
