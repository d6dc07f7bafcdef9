---------------------------- MODULE DriveUpdater ----------------------------
(***************************************************************************)
(* ECU Drive's updater (apps/ecu-drive/src/updater.cpp): the check of the  *)
(* releases, the download of an APK in the cache, its installation by      *)
(* Android and the notes of what changed, with the banner of Main.qml that *)
(* offers each of them.                                                    *)
(*                                                                         *)
(* Abstractions.  Versions are numbers and the releases with an APK a set. *)
(* The content of an APK, the progress bar and the GitHub page are left    *)
(* out.                                                                    *)
(***************************************************************************)
EXTENDS Naturals

CONSTANT Versions       \* bound: the last version released; the first one is 1

ASSUME VersionsAssumption == Versions \in Nat \ {0}

VARIABLES
  current,      \* APP_VERSION of the program that runs
  newest,       \* external: the versions released are 1..newest
  withApk,      \* external: those whose release has an APK
  up,           \* the program runs
  state,        \* m_state
  latest,       \* m_latestVersion, 0: none
  apkUrl,       \* the version m_apkUrl leads to, 0: none
  apkPath,      \* the version in m_apkPath's name, 0: none
  cache,        \* [version -> the APK in the cache has that version, 0: no file]
  asked,        \* the version of the APK whose request is under way, 0: none
  seen,         \* the setting kSeenNotesKey, 0: none
  whatsNew,     \* the versions of m_whatsNewNotes
  askedNotes    \* the versions whose notes the user has acknowledged

updateVars == <<current, newest, withApk, up, state, latest, apkUrl, apkPath, cache, asked,
                seen, whatsNew, askedNotes>>
release == <<current, newest, withApk, up>>
notes == <<seen, whatsNew, askedNotes>>
apk == <<apkPath, cache, asked>>
found == <<latest, apkUrl>>

DriveUpdaterInit ==
  /\ current = 1 /\ newest = 1 /\ withApk = {} /\ up = TRUE
  /\ state = "idle" /\ latest = 0 /\ apkUrl = 0 /\ apkPath = 0
  /\ cache = [v \in 1..Versions |-> 0] /\ asked = 0
  /\ seen = 0 /\ whatsNew = {} /\ askedNotes = {}

\* A slip: a check may start during a download.
CheckAnytime ==
  /\ up /\ state # "checking"
  /\ state' = "checking"
  /\ UNCHANGED <<release, found, apk, notes>>

\* The first check of a start and the button of the settings.
Check ==
  /\ up /\ state \notin {"checking", "downloading"}
  /\ state' = "checking"
  /\ UNCHANGED <<release, found, apk, notes>>

\* rebuildDerivedNotes: the first run only takes note of its own version.
RebuildDerivedNotes ==
  /\ IF seen = 0 THEN seen' = current /\ whatsNew' = {}
     ELSE whatsNew' = {v \in 1..newest : v <= current /\ v > seen} /\ UNCHANGED seen
  /\ UNCHANGED askedNotes

CheckFails ==
  /\ up /\ state = "checking" /\ state' = "failed"
  /\ UNCHANGED <<release, found, apk, notes>>

\* The list of releases arrives; the newest release may have no APK.
ReleaseHeard ==
  /\ up /\ state = "checking"
  /\ RebuildDerivedNotes
  /\ IF newest > current
     THEN /\ state' = "available" /\ latest' = newest
          /\ apkUrl' = IF newest \in withApk THEN newest ELSE 0
     ELSE state' = "idle" /\ latest' = 0 /\ apkUrl' = 0
  /\ UNCHANGED <<release, apk>>

\* The APK's download is refused: there is none, or the cache cannot be written.
ApkFails ==
  /\ up /\ state = "available" /\ state' = "failed"
  /\ \/ UNCHANGED apk                                   \* no APK, or no cache
     \/ /\ apkUrl # 0                                   \* the file cannot be opened
        /\ apkPath' = latest /\ cache' = [cache EXCEPT ![latest] = 0]
        /\ UNCHANGED asked
  /\ UNCHANGED <<release, found, notes>>

\* download: shown when there is something to download.
DownloadApk ==
  /\ up /\ state = "available" /\ apkUrl # 0
  /\ state' = "downloading" /\ apkPath' = latest /\ asked' = apkUrl
  /\ cache' = [cache EXCEPT ![latest] = 0]
  /\ UNCHANGED <<release, found, notes>>

\* The finished slot of a download: the file goes to m_apkPath or is removed.
ApkArrives ==
  /\ up /\ asked # 0 /\ asked' = 0
  /\ \/ state' = "failed" /\ cache' = [cache EXCEPT ![apkPath] = 0]
     \/ state' = "ready" /\ cache' = [cache EXCEPT ![apkPath] = asked]
  /\ UNCHANGED <<release, found, notes, apkPath>>

\* Android refuses to start an installation: not allowed yet, or no file.
InstallFails ==
  /\ up /\ state = "ready" /\ state' = "failed"
  /\ UNCHANGED <<release, found, apk, notes>>

\* Android installs the APK, if it accepts it and the user agrees, and ends the program.
Install ==
  /\ up /\ state = "ready" /\ cache[apkPath] > current
  /\ up' = FALSE /\ current' = cache[apkPath]
  /\ UNCHANGED <<newest, withApk, state, found, apk, notes>>

\* dismiss: not shown during a download.
Dismiss ==
  /\ up /\ state \in {"available", "ready"} /\ state' = "idle"
  /\ UNCHANGED <<release, found, apk, notes>>

\* A slip: the setting is not written.
AcknowledgeUnsaved ==
  /\ up /\ whatsNew # {}
  /\ askedNotes' = askedNotes \cup whatsNew /\ whatsNew' = {}
  /\ UNCHANGED <<release, state, found, apk, seen>>

\* acknowledgeNotes: the page of what changed is closed.
AcknowledgeNotes ==
  /\ up /\ whatsNew # {}
  /\ seen' = current /\ askedNotes' = askedNotes \cup whatsNew /\ whatsNew' = {}
  /\ UNCHANGED <<release, state, found, apk>>

\* External: Android ends the program.
Ends == up /\ up' = FALSE /\ UNCHANGED <<current, newest, withApk, state, found, apk, notes>>

\* A new start: the members are new, the settings and the cache are kept.
Starts ==
  /\ ~up /\ up' = TRUE
  /\ state' = "idle" /\ latest' = 0 /\ apkUrl' = 0 /\ apkPath' = 0 /\ asked' = 0
  /\ whatsNew' = {}
  /\ UNCHANGED <<current, newest, withApk, cache, seen, askedNotes>>

\* External: a version is released, with an APK or without.
PublishVersion ==
  /\ newest < Versions /\ newest' = newest + 1
  /\ \E a \in {{}, {newest + 1}} : withApk' = withApk \cup a
  /\ UNCHANGED <<current, up, state, found, apk, notes>>

DriveUpdaterNext ==
  \/ Check \/ CheckFails \/ ReleaseHeard
  \/ DownloadApk \/ ApkFails \/ ApkArrives
  \/ Install \/ InstallFails \/ Dismiss \/ AcknowledgeNotes
  \/ Ends \/ Starts \/ PublishVersion

DriveUpdaterSpec == DriveUpdaterInit /\ [][DriveUpdaterNext]_updateVars

-----------------------------------------------------------------------------
(* Properties. *)

DriveUpdaterTypeOK ==
  /\ {current, newest} \subseteq 1..Versions /\ withApk \subseteq 1..Versions
  /\ up \in BOOLEAN
  /\ state \in {"idle", "checking", "available", "downloading", "ready", "failed"}
  /\ {latest, apkUrl, apkPath, asked, seen} \subseteq 0..Versions
  /\ cache \in [1..Versions -> 0..Versions]
  /\ whatsNew \subseteq 1..Versions /\ askedNotes \subseteq 1..Versions

\* What the banner calls ready is in the cache, is the version it names and is newer than the
\* program that runs, and a download under way fetches the version of its file: whatever
\* checks, releases and earlier downloads there were (updater.cpp:404-526, Main.qml:160-180).
ApkOffered ==
  up => /\ state = "ready" => /\ cache[apkPath] = apkPath
                              /\ apkPath = latest /\ latest > current
        /\ asked # 0 => state = "downloading" /\ asked = apkPath

\* Notes are shown once: those the user has acknowledged do not come back, after another
\* check, a new start or an update (updater.cpp:173-202, 563-569).
NotesShownOnce == whatsNew \cap askedNotes = {}
=============================================================================
