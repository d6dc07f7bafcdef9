------------------------------ MODULE HubTools ------------------------------
(***************************************************************************)
(* The launcher of ECU Studio's companion tools (hub_launcher_panel.cpp)   *)
(* and what downloads those that are missing (tool_downloader.cpp): one    *)
(* download at a time, of a manifest and then of the binary, written over  *)
(* the file that is there, and the buttons of every tool.                  *)
(*                                                                         *)
(* Abstractions.  Manifests, names and progress are left out.  A binary is *)
(* whole or cut short: what was received is checked, what was written is   *)
(* not.  Tools built with the suite are never missing and left out.        *)
(***************************************************************************)
EXTENDS Naturals

CONSTANTS
  Tools         \* the external tools that have a repository of releases

VARIABLES
  fetching,     \* m_downloader: "none", "manifest", "binary"
  fetched,      \* the tool of m_dest, the last one asked for
  binary,       \* the file of each tool: "none", "whole", "short"
  running,      \* tools whose process runs
  launchOn,     \* launch buttons that are enabled
  getOn,        \* download buttons that are enabled
  getShown      \* download buttons that are shown

hubVars == <<fetching, fetched, binary, running, launchOn, getOn, getShown>>

buttons == <<launchOn, getOn, getShown>>

\* resolveExec
Available(b) == {t \in Tools : b[t] # "none"}

\* buildTile: a tool that is there gets no download button.
HubInit ==
  /\ fetching = "none" /\ fetched \in Tools
  /\ binary \in [Tools -> {"none", "whole"}]
  /\ running = {}
  /\ launchOn = Available(binary)
  /\ getOn = Tools \ Available(binary) /\ getShown = Tools \ Available(binary)

\* A slip: the button stays as the click left it.
ToolFailsDisabled ==
  /\ fetching' = "none" /\ UNCHANGED <<fetched, binary, running, buttons>>

\* The failed slot: whatever tool it was for.
ToolFails ==
  /\ fetching' = "none" /\ getOn' = Tools
  /\ UNCHANGED <<fetched, binary, running, launchOn, getShown>>

\* downloadTool and start; there may be no TLS.
DownloadTool(t) ==
  /\ t \in getOn \cap getShown
  /\ IF fetching # "none" THEN UNCHANGED hubVars
     ELSE \/ ToolFails
          \/ /\ fetching' = "manifest" /\ fetched' = t /\ getOn' = getOn \ {t}
             /\ UNCHANGED <<binary, running, launchOn, getShown>>

OnManifest ==
  /\ fetching = "manifest"
  /\ \/ fetching' = "binary" /\ UNCHANGED <<fetched, binary, running, buttons>>
     \/ ToolFails

\* refreshAvailability; buttons that were never made are left out.
RefreshAvailability(b) ==
  /\ launchOn' = Available(b) /\ getOn' = Tools
  /\ getShown' = getShown \ Available(b)

\* The binary is received and its sum, if the manifest has one, is right; the disk may be
\* full.  An executable that runs cannot be opened for writing.
OnBinary ==
  /\ fetching = "binary"
  /\ \/ ToolFails
     \/ /\ fetched \notin running
        /\ \E b \in {"whole", "short"} : binary' = [binary EXCEPT ![fetched] = b]
        /\ fetching' = "none"
        /\ RefreshAvailability(binary')
        /\ UNCHANGED <<fetched, running>>

\* launch: one process for each tool; a short binary does not start.
Launch(t) ==
  /\ t \in launchOn
  /\ running' = IF binary[t] = "whole" THEN running \cup {t} ELSE running
  /\ UNCHANGED <<fetching, fetched, binary, buttons>>

\* External: a tool ends.
ToolEnds(t) ==
  /\ t \in running /\ running' = running \ {t}
  /\ UNCHANGED <<fetching, fetched, binary, buttons>>

HubNext ==
  \/ OnManifest \/ OnBinary
  \/ \E t \in Tools : DownloadTool(t) \/ Launch(t) \/ ToolEnds(t)

\* Every request gets an answer or an error.
HubFairness == WF_hubVars(OnManifest) /\ WF_hubVars(OnBinary)

HubSpec == HubInit /\ [][HubNext]_hubVars /\ HubFairness

-----------------------------------------------------------------------------
(* Properties. *)

HubTypeOK ==
  /\ fetching \in {"none", "manifest", "binary"} /\ fetched \in Tools
  /\ binary \in [Tools -> {"none", "whole", "short"}]
  /\ {running, launchOn, getOn, getShown} \subseteq SUBSET Tools

\* A tool that is missing can be downloaded again, whatever came of the downloads before:
\* its button is enabled in the end, also when it was another tool's that failed
\* (hub_launcher_panel.cpp:246-257).
ButtonsComeBack == \A t \in Tools : (t \in getShown) ~> (t \in getOn \/ t \notin getShown)
=============================================================================
