--------------------------- MODULE StudioUpdater ----------------------------
(***************************************************************************)
(* The updates of ECU Studio (updater.cpp, update_dialog.cpp and           *)
(* MainWindow::checkForUpdates): one Updater for the whole application,    *)
(* which fetches the signed manifest of the last release in two requests,  *)
(* then the AppImage, and puts it in the place of the one that runs; and   *)
(* the windows that follow it, which come and go while it works.           *)
(*                                                                         *)
(* Installing is one slot, but each of its steps reaches the disk: the     *)
(* application may be killed between two of them, and `stage` says how far *)
(* the slot has come.  Nothing else runs meanwhile.                        *)
(*                                                                         *)
(* Abstractions.  Releases are numbered, 0 being the one installed; a file *)
(* is a release and whether all of it is there.  A signature fits the      *)
(* manifest of its own release, a sum the whole file of its own.  The      *)
(* window opened by the startup check is of the same class as the others.  *)
(* The progress bar is left out, and the fallback of atomicInstall to a    *)
(* copy across devices: the temporary file is in the same directory.       *)
(***************************************************************************)
EXTENDS Integers, Sequences

CONSTANTS
  Releases,     \* bound: releases published while the application runs
  MaxStarts     \* bound: times the application is started

ASSUME UpdaterAssumption == Releases \in Nat /\ MaxStarts \in Nat \ {0}

VARIABLES
  published,    \* the last release on the server
  updater,      \* m_state: "Idle", "FetchManifest", "FetchSig", "Downloading"
  manifest,     \* the release m_manifest is of
  version,      \* m_version, m_sha256 and m_filename: a release, or -1
  windows,      \* the UpdateDialogs, the last opened last
  silent,       \* the startup check: "due", "listening", "over"
  stage,        \* onAppImageReply: "none", "written", "verified"
  tmpFile,      \* the temporary file
  appImage,     \* the AppImage
  starts        \* times the application was started

updaterVars == <<published, updater, manifest, version, windows, silent, stage, tmpFile,
                 appImage, starts>>

disk == <<tmpFile, appImage>>
checked == <<manifest, version>>
outside == <<published, starts>>

Phases == {"Checking", "Available", "Downloading", "Done", "Error"}
OpenedWindow == [phase : Phases, enabled : BOOLEAN]     \* m_phase, m_actionBtn
File == [release : -1..Releases, whole : BOOLEAN]
NoFile == [release |-> -1, whole |-> FALSE]

\* The application as it starts; what it has on disk stays.
Fresh ==
  /\ updater' = "Idle" /\ manifest' = -1 /\ version' = -1
  /\ windows' = <<>> /\ silent' = "due" /\ stage' = "none"

UpdaterInit ==
  /\ published \in 0..Releases /\ starts = 1
  /\ updater = "Idle" /\ manifest = -1 /\ version = -1
  /\ windows = <<>> /\ silent = "due" /\ stage = "none"
  /\ tmpFile = NoFile /\ appImage = [release |-> 0, whole |-> TRUE]

AtRest == stage = "none"

-----------------------------------------------------------------------------
(* Windows. *)

\* setPhase: downloading disables the button, and nothing enables it again.
SetPhase(w, phase) ==
  [phase |-> phase, enabled |-> w.enabled /\ phase # "Downloading"]

\* Every window is connected to the signals of the updater.
Tell(phase) == [i \in 1..Len(windows) |-> SetPhase(windows[i], phase)]

NewWindow == [phase |-> "Checking", enabled |-> TRUE]

\* Updater::checkForUpdates does nothing while something else goes on.
CheckForUpdates == IF updater = "Idle" THEN "FetchManifest" ELSE updater

\* A window is modal: the menu is out of reach while one is open.
OpenWindow ==
  /\ AtRest /\ windows = <<>>
  /\ windows' = <<NewWindow>> /\ updater' = CheckForUpdates
  /\ UNCHANGED <<checked, silent, stage, disk, outside>>

\* MainWindow::checkForUpdates(silent), 2 s after the start.
SilentCheck ==
  /\ AtRest /\ silent = "due"
  /\ silent' = "listening" /\ updater' = CheckForUpdates
  /\ UNCHANGED <<checked, windows, stage, disk, outside>>

CloseWindow ==
  /\ AtRest /\ windows # <<>>
  /\ windows' = SubSeq(windows, 1, Len(windows) - 1)
  /\ UNCHANGED <<updater, checked, silent, stage, disk, outside>>

\* onActionClicked of the window on top, and Updater::startDownload.
Download ==
  /\ AtRest /\ windows # <<>>
  /\ LET top == Len(windows) IN
     /\ windows[top].phase = "Available" /\ windows[top].enabled
     /\ windows' = [windows EXCEPT ![top] = SetPhase(@, "Downloading")]
  /\ updater' = IF updater = "Idle" /\ version # -1 THEN "Downloading" ELSE updater
  /\ UNCHANGED <<checked, silent, stage, disk, outside>>

-----------------------------------------------------------------------------
(* Checking. *)

\* A slip: the startup check keeps its end from the windows opened meanwhile.
CheckEndsSilently(phase) ==
  /\ updater' = "Idle" /\ windows' = IF silent = "listening" THEN windows ELSE Tell(phase)
  /\ silent' = IF silent = "listening" THEN "over" ELSE silent

\* checkError, upToDate: told to the windows, and the silent check is over.
CheckEnds(phase) ==
  /\ updater' = "Idle" /\ windows' = Tell(phase)
  /\ silent' = IF silent = "listening" THEN "over" ELSE silent

\* updateAvailable: the silent check opens a window, which checks again.
OfferUpdate ==
  IF silent = "listening"
  THEN /\ updater' = "FetchManifest" /\ silent' = "over"
       /\ windows' = Append(Tell("Available"), NewWindow)
  ELSE updater' = "Idle" /\ windows' = Tell("Available") /\ UNCHANGED silent

OnManifestReply ==
  /\ AtRest /\ updater = "FetchManifest"
  /\ \/ manifest' = published /\ updater' = "FetchSig" /\ UNCHANGED <<windows, silent>>
     \/ CheckEnds("Error") /\ UNCHANGED manifest
  /\ UNCHANGED <<version, stage, disk, outside>>

\* A signature fetched after another release came out does not fit.
OnSigReply ==
  /\ AtRest /\ updater = "FetchSig"
  /\ \/ CheckEnds("Error") /\ UNCHANGED version
     \/ /\ manifest = published /\ version' = manifest
        /\ IF manifest > 0 THEN OfferUpdate ELSE CheckEnds("Done")
  /\ UNCHANGED <<manifest, stage, disk, outside>>

-----------------------------------------------------------------------------
(* Installing: onAppImageReply. *)

DownloadEnds(phase) == updater' = "Idle" /\ windows' = Tell(phase) /\ stage' = "none"

DownloadFails ==
  /\ AtRest /\ updater = "Downloading"
  /\ \/ tmpFile' = NoFile           \* the request: the file is removed
     \/ UNCHANGED tmpFile           \* it cannot be opened for writing
  /\ DownloadEnds("Error")
  /\ UNCHANGED <<checked, silent, appImage, outside>>

\* What was received is written; the disk may be full.
WriteTmp ==
  /\ AtRest /\ updater = "Downloading"
  /\ \E whole \in BOOLEAN : tmpFile' = [release |-> version, whole |-> whole]
  /\ stage' = "written"
  /\ UNCHANGED <<updater, checked, windows, silent, appImage, outside>>

\* A slip: the sum is of what was received, not of what was written.
VerifyReceived ==
  /\ stage = "written" /\ stage' = "verified"
  /\ UNCHANGED <<updater, checked, windows, silent, disk, outside>>

\* verifySha256 reads the file again.
VerifySha256 ==
  /\ stage = "written"
  /\ IF tmpFile = [release |-> version, whole |-> TRUE]
     THEN stage' = "verified" /\ UNCHANGED <<updater, windows, tmpFile>>
     ELSE tmpFile' = NoFile /\ DownloadEnds("Error")
  /\ UNCHANGED <<checked, silent, appImage, outside>>

\* atomicInstall
AtomicInstall ==
  /\ stage = "verified" /\ tmpFile' = NoFile
  /\ \/ appImage' = tmpFile /\ DownloadEnds("Done")
     \/ UNCHANGED appImage /\ DownloadEnds("Error")
  /\ UNCHANGED <<checked, silent, outside>>

-----------------------------------------------------------------------------
(* Outside. *)

Publish ==
  /\ published < Releases /\ published' = published + 1
  /\ UNCHANGED <<updater, checked, windows, silent, stage, disk, starts>>

\* The application ends, or is killed, and is started again.
Restart ==
  /\ starts < MaxStarts /\ starts' = starts + 1
  /\ Fresh /\ UNCHANGED <<disk, published>>

UpdaterNext ==
  \/ OpenWindow \/ SilentCheck \/ CloseWindow \/ Download
  \/ OnManifestReply \/ OnSigReply
  \/ DownloadFails \/ WriteTmp \/ VerifySha256 \/ AtomicInstall
  \/ Publish \/ Restart

\* Every request gets an answer or an error, and a slot goes on to its end.
UpdaterFairness ==
  /\ WF_updaterVars(OnManifestReply) /\ WF_updaterVars(OnSigReply)
  /\ WF_updaterVars(DownloadFails \/ WriteTmp)
  /\ WF_updaterVars(VerifySha256) /\ WF_updaterVars(AtomicInstall)

UpdaterSpec == UpdaterInit /\ [][UpdaterNext]_updaterVars /\ UpdaterFairness

-----------------------------------------------------------------------------
(* Properties. *)

UpdaterTypeOK ==
  /\ published \in 0..Releases /\ starts \in 1..MaxStarts
  /\ updater \in {"Idle", "FetchManifest", "FetchSig", "Downloading"}
  /\ {manifest, version} \subseteq -1..Releases
  /\ windows \in Seq(OpenedWindow) /\ silent \in {"due", "listening", "over"}
  /\ stage \in {"none", "written", "verified"}
  /\ tmpFile \in File /\ appImage \in File

\* Whatever the network, the disk and the user do, and wherever the application is
\* killed, the AppImage it will be started from is a whole one (updater.cpp:183-219):
\* the sum is that of the file written, and the file takes its place in one step.
AppImageWhole == appImage.whole

\* A window that says it is checking or downloading is told of an end, whichever other
\* window began what the updater is doing, and however that ended
\* (update_dialog.cpp:43-48, updater.cpp:57-219).
WindowsAreTold ==
  \A i \in 1..2 :
    LET waits == Len(windows) >= i /\ windows[i].phase \in {"Checking", "Downloading"}
    IN  waits ~> ~waits
=============================================================================
