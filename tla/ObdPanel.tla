------------------------------ MODULE ObdPanel ------------------------------
(***************************************************************************)
(* ECU Studio's OBD panel (panels/obd_panel.cpp) over the ELM327 driver,   *)
(* which is taken for what ElmLink promises: the connection and its        *)
(* automatic renewal, driving sessions, datalog, CAN monitor and CSV log.  *)
(*                                                                         *)
(* The summary shown at the end of a session, and the choice of a file for *)
(* the log, are modal dialogs run inside the slot that opens them: timers  *)
(* and the driver's signals go on meanwhile, the user's other actions do   *)
(* not, and the rest of the slot runs when the dialog closes, on the state *)
(* of that moment.  `dialogs` holds those rests, the last opened last.     *)
(*                                                                         *)
(* Abstractions.  The values measured, the trouble codes and the wording   *)
(* are left out.  `rom` says whether the validator is ready, `polled` who  *)
(* asked for the PIDs the driver has in its list; a category of rules      *)
(* stands for the PIDs they measure.  The message that tells what the      *)
(* route preset did has nothing left to do when it closes, and is left     *)
(* out, as is closing the application while a dialog is open.              *)
(***************************************************************************)
EXTENDS Integers, Sequences

CONSTANTS
  BoxCategories,      \* of the rules: boost, smoke, air, fuel
  RouteCategories,    \* boost and smoke: of the route preset, and when no box is checked
  MaxDialogs          \* bound: a session gets values while fewer dialogs are open

ASSUME PanelAssumption == MaxDialogs \in Nat /\ MaxDialogs > 1

ASSUME BoxAssumption == RouteCategories \in (SUBSET BoxCategories) \ {{}}

VARIABLES
  phase, told,  \* the driver, as ElmLink has it
  panel,        \* the panel's members and widgets, see PanelType
  dialogs,      \* [rest |-> what the slot has left to do, old |-> the link changed since]
  late          \* a dialog was closed after the link changed under it

panelVars == <<phase, told, panel, dialogs, late>>

Elm == INSTANCE ElmLink

PanelType ==
  [connected : BOOLEAN, want : BOOLEAN,         \* m_connected, m_wantConnected
   auto : BOOLEAN, timer : BOOLEAN,             \* Auto-reco, m_reconnectTimer armed
   driveMode : BOOLEAN, rom : BOOLEAN,          \* m_validator->isReady()
   validating : BOOLEAN, ticks : BOOLEAN,       \* the session has received a value
   datalog : BOOLEAN, sniff : BOOLEAN,          \* m_datalog, m_canSniff
   csv : {"none", "values", "rows"},            \* m_csv; "rows" when m_valCsv
   connectOn : BOOLEAN, toolsOn : BOOLEAN,      \* buttons enabled: connect; datalog, CAN
   valOn : BOOLEAN, stopShown : BOOLEAN,        \* validation; m_connectBtn is "Déconnecter"
   polled : {"none", "datalog", "tune"}, monitor : BOOLEAN,     \* the driver
   boxes : SUBSET BoxCategories,                \* m_catBoost to m_catFuel that are checked
   loaded : SUBSET BoxCategories,               \* categories of the maps found in the tune
   ticked : SUBSET BoxCategories,               \* categories with a rule that is enabled
   asked : SUBSET BoxCategories,                \* those whose PIDs the session had polled
   changed : BOOLEAN,                           \* rules came under the session, or all went
   gained : BOOLEAN]                            \* ready by the boxes alone, no session tried

Rests == {"disconnected", "drive", "datalog", "sniff", "none", "csv"}

PanelInit ==
  /\ Elm!Init
  /\ \E auto \in BOOLEAN, driveMode \in BOOLEAN, boxes \in SUBSET BoxCategories :
       panel = [connected |-> FALSE, want |-> FALSE, auto |-> auto, timer |-> FALSE,
                driveMode |-> driveMode, rom |-> FALSE, validating |-> FALSE, ticks |-> FALSE,
                datalog |-> FALSE, sniff |-> FALSE, csv |-> "none", connectOn |-> TRUE,
                toolsOn |-> FALSE, valOn |-> FALSE, stopShown |-> FALSE,
                polled |-> "none", monitor |-> FALSE, boxes |-> boxes, loaded |-> {},
                ticked |-> {}, asked |-> {}, changed |-> FALSE, gained |-> FALSE]
  /\ dialogs = <<>> /\ late = FALSE

Quiet == told = <<>>
\* The user reaches the panel when no dialog is over it.
AtHand == Quiet /\ dialogs = <<>>
\* The tabs, with the datalog, validation, CAN and CSV buttons, are hidden in drive mode.
TabsAtHand == AtHand /\ ~panel.driveMode

\* What connectPort and disconnectPort do to the driver's poll list and CAN mode.
Cleared(p) == [p EXCEPT !.polled = "none", !.monitor = FALSE]

-----------------------------------------------------------------------------
(* Sessions. *)

\* scheduleAutoReconnect
Schedule(p) == IF p.auto /\ p.want THEN [p EXCEPT !.timer = TRUE] ELSE p

\* A slip: the PIDs of the route are polled whatever the rules are.
StartValidationRoute(p, written) ==
  IF ~p.connected \/ ~p.rom \/ p.validating THEN p
  ELSE [p EXCEPT !.datalog = FALSE, !.sniff = FALSE, !.monitor = @ /\ ~p.sniff,
                 !.polled = "tune", !.validating = TRUE, !.ticks = FALSE,
                 !.asked = RouteCategories, !.changed = FALSE, !.gained = FALSE,
                 !.csv = IF p.driveMode /\ @ = "none" /\ written THEN "rows" ELSE @]

\* startValidation, with autoStartCsv; `written`: the log could be opened.
StartValidation(p, written) ==
  IF ~p.connected \/ ~p.rom \/ p.validating THEN p
  ELSE [p EXCEPT !.datalog = FALSE, !.sniff = FALSE, !.monitor = @ /\ ~p.sniff,
                 !.polled = "tune", !.validating = TRUE, !.ticks = FALSE,
                 !.asked = p.ticked, !.changed = FALSE, !.gained = FALSE,
                 !.csv = IF p.driveMode /\ @ = "none" /\ written THEN "rows" ELSE @]

\* tryAutoStartDriveSession
TryAutoStart(p, written) == IF p.driveMode THEN StartValidation(p, written) ELSE p

\* A slip: the poll goes on after the session.
EndSessionPolling(p) ==
  [p EXCEPT !.validating = FALSE, !.asked = {}, !.changed = FALSE,
            !.csv = IF p.driveMode THEN "none" ELSE @]

\* stopValidation up to the summary, with autoStopCsv.
EndSession(p) ==
  [p EXCEPT !.polled = "none", !.validating = FALSE, !.asked = {}, !.changed = FALSE,
            !.csv = IF p.driveMode THEN "none" ELSE @]

\* A slip: the connect button keeps its label.
AfterDisconnectedLabel(p) ==
  Schedule([p EXCEPT !.sniff = FALSE, !.connectOn = TRUE, !.toolsOn = FALSE, !.valOn = FALSE])

\* The rest of the slot of disconnected.
AfterDisconnected(p) ==
  Schedule([p EXCEPT !.sniff = FALSE, !.connectOn = TRUE, !.stopShown = FALSE,
                     !.toolsOn = FALSE, !.valOn = FALSE])

\* The rest of a slot that stopped a session.
Resume(p, rest) ==
  CASE rest = "disconnected" -> panel' = AfterDisconnected(p) /\ UNCHANGED <<phase, told>>
    [] rest = "drive" ->
         IF p.connected /\ p.want
         THEN panel' = Cleared([p EXCEPT !.want = FALSE]) /\ Elm!Disconnect
         ELSE panel' = p /\ UNCHANGED <<phase, told>>
    [] rest = "datalog" ->
         /\ panel' = [p EXCEPT !.polled = "datalog", !.datalog = TRUE]
         /\ UNCHANGED <<phase, told>>
    [] rest = "sniff" ->        \* startCanMonitor does nothing when not ready
         /\ panel' = [p EXCEPT !.sniff = TRUE, !.monitor = @ \/ phase = "ready",
                               !.polled = IF phase = "ready" THEN "none" ELSE @]
         /\ UNCHANGED <<phase, told>>
    [] OTHER -> panel' = p /\ UNCHANGED <<phase, told>>

\* stopValidation, then the rest: at once, or when the summary is closed.
StopValidationThen(p, rest) ==
  IF p.validating /\ p.ticks
  THEN /\ dialogs' = Append(dialogs, [rest |-> rest, old |-> FALSE])
       /\ panel' = EndSession(p) /\ UNCHANGED <<phase, told>>
  ELSE /\ Resume(IF p.validating THEN EndSession(p) ELSE p, rest)
       /\ UNCHANGED dialogs

\* The link changes: what the open dialogs left to do belongs to the past.
Outdated == [i \in 1..Len(dialogs) |-> [dialogs[i] EXCEPT !.old = TRUE]]

-----------------------------------------------------------------------------
(* The rules. *)

\* The categories the validator is given: none means those of the route.
Watched(boxes) == IF boxes = {} THEN RouteCategories ELSE boxes

\* applyCategoryFilters: the rules are made again of what was found when the tune was
\* loaded, all enabled; the PIDs polled, the session and its button stay as they are.
Filtered(p, boxes) ==
  LET ticked == Watched(boxes) \cap p.loaded IN
  [p EXCEPT !.boxes = boxes, !.ticked = ticked, !.rom = ticked # {},
            !.changed = @ \/ (p.validating /\ (ticked = {} \/ ~(ticked \subseteq p.ticked))),
            !.gained = ticked # {} /\ (@ \/ ~(p.validating \/ p.rom))]

-----------------------------------------------------------------------------
(* Slots of the driver's signals. *)

Hears(signal) == told # <<>> /\ Head(told) = signal

OnConnected ==
  /\ Hears("connected") /\ Elm!Handle
  /\ \E written \in BOOLEAN :
       panel' = TryAutoStart(
         [panel EXCEPT !.connected = TRUE, !.want = TRUE, !.timer = FALSE,
                       !.connectOn = TRUE, !.stopShown = TRUE, !.toolsOn = TRUE,
                       !.valOn = panel.rom], written)
  /\ dialogs' = Outdated /\ UNCHANGED late

\* disconnected is the last signal of its step, so that the link is idle or opening.
OnDisconnected ==
  /\ Hears("disconnected") /\ told' = Tail(told) /\ UNCHANGED <<phase, late>>
  /\ LET p == [panel EXCEPT !.connected = FALSE, !.datalog = FALSE] IN
     IF p.validating /\ p.ticks
     THEN /\ dialogs' = Append(Outdated, [rest |-> "disconnected", old |-> FALSE])
          /\ panel' = EndSession(p)
     ELSE /\ dialogs' = Outdated
          /\ panel' = AfterDisconnected(IF p.validating THEN EndSession(p) ELSE p)

\* A slip: an error during the opening arms no timer.
OnErrorNoRetry ==
  /\ Hears("errorOccurred") /\ Elm!Handle
  /\ panel' = [panel EXCEPT !.connectOn = TRUE, !.connected = FALSE,
                            !.want = @ /\ panel.auto,
                            !.timer = @ \/ (panel.auto /\ panel.connected)]
  /\ UNCHANGED <<dialogs, late>>

OnError ==
  /\ Hears("errorOccurred") /\ Elm!Handle
  /\ panel' = Schedule([panel EXCEPT !.connectOn = TRUE, !.connected = FALSE,
                                     !.want = @ /\ panel.auto])
  /\ UNCHANGED <<dialogs, late>>

\* pidResult: the session, once started, ingests the results when the validator is ready.
OnPidResult ==
  /\ Quiet /\ phase = "ready" /\ panel.polled # "none" /\ ~panel.monitor
  /\ panel.validating /\ panel.rom /\ ~panel.ticks /\ Len(dialogs) < MaxDialogs
  /\ panel' = [panel EXCEPT !.ticks = TRUE]
  /\ UNCHANGED <<phase, told, dialogs, late>>

-----------------------------------------------------------------------------
(* The driver and the dongle. *)

DriverEstablishes == Elm!Establish /\ UNCHANGED <<panel, dialogs, late>>

DriverFails == Elm!Fail /\ panel' = Cleared(panel) /\ UNCHANGED <<dialogs, late>>

-----------------------------------------------------------------------------
(* The user and the reconnection timer. *)

\* startConnect; the port last used may be gone.
StartConnect(p) ==
  \/ panel' = Schedule(p) /\ UNCHANGED <<phase, told>>
  \/ Elm!Connect /\ panel' = Cleared([p EXCEPT !.want = TRUE, !.connectOn = FALSE])

\* tryAutoReconnect: the timer fires once, whatever dialog is open.
TryAutoReconnect ==
  /\ Quiet /\ panel.timer
  /\ LET p == [panel EXCEPT !.timer = FALSE] IN
     IF p.auto /\ p.want /\ ~p.connected THEN StartConnect(p)
     ELSE panel' = p /\ UNCHANGED <<phase, told>>
  /\ UNCHANGED <<dialogs, late>>

\* toggleConnect: also what gives up an attempt that is awaited.  disconnectPort runs the
\* slot of disconnected before the label is set; the order of the two does not matter.
ToggleConnect ==
  /\ AtHand /\ panel.connectOn
  /\ IF panel.connected \/ panel.want
     THEN /\ Elm!Disconnect
          /\ panel' = Cleared([panel EXCEPT !.want = FALSE, !.timer = FALSE,
                                            !.connectOn = TRUE, !.stopShown = FALSE])
     ELSE StartConnect(panel)
  /\ UNCHANGED <<dialogs, late>>

\* onAutoReconnectToggled
OnAutoReconnectToggled ==
  /\ AtHand
  /\ LET p == [panel EXCEPT !.auto = ~@] IN
     panel' = IF ~p.auto THEN [p EXCEPT !.timer = FALSE]
              ELSE IF p.want /\ ~p.connected THEN Schedule(p) ELSE p
  /\ UNCHANGED <<phase, told, dialogs, late>>

\* onDriveModeToggled
OnDriveModeToggled ==
  /\ AtHand
  /\ \E written \in BOOLEAN :
       panel' = TryAutoStart([panel EXCEPT !.driveMode = ~@], written)
  /\ UNCHANGED <<phase, told, dialogs, late>>

\* onCategoryFilterChanged
OnCategoryFilterChanged ==
  /\ TabsAtHand
  /\ \E c \in BoxCategories :
       panel' = Filtered(panel, IF c \in panel.boxes THEN panel.boxes \ {c}
                                ELSE panel.boxes \cup {c})
  /\ UNCHANGED <<phase, told, dialogs, late>>

\* onRuleCellChanged: the last enabled rule of a category is disabled, or a first one
\* enabled again.
OnRuleCellChanged ==
  /\ TabsAtHand
  /\ \E c \in Watched(panel.boxes) \cap panel.loaded :
       panel' = IF c \in panel.ticked THEN [panel EXCEPT !.ticked = @ \ {c}]
                ELSE [panel EXCEPT !.ticked = @ \cup {c}, !.changed = @ \/ panel.validating]
  /\ UNCHANGED <<phase, told, dialogs, late>>

\* applyRoutePreset: what it checks runs the slots above, a session being tried with the
\* rules there were before the categories are filtered.
ApplyRoutePreset ==
  /\ AtHand
  /\ LET p == [panel EXCEPT !.driveMode = TRUE, !.auto = TRUE] IN
     \E written \in BOOLEAN :
       LET q == IF panel.driveMode THEN p ELSE TryAutoStart(p, written) IN
       panel' = Filtered(IF ~panel.auto /\ p.want /\ ~p.connected THEN Schedule(q) ELSE q,
                         RouteCategories)
  /\ UNCHANGED <<phase, told, dialogs, late>>

\* onDriveSessionClicked; its button is shown in drive mode only.
OnDriveSessionClicked ==
  /\ AtHand /\ panel.driveMode
  /\ IF panel.validating THEN StopValidationThen(panel, "drive")
     ELSE /\ IF ~panel.connected THEN StartConnect(panel)
             ELSE /\ \E written \in BOOLEAN : panel' = TryAutoStart(panel, written)
                  /\ UNCHANGED <<phase, told>>
          /\ UNCHANGED dialogs
  /\ UNCHANGED late

\* loadRom: another ROM, or none, is opened, or it changed; the maps looked for are those
\* of the categories watched.
Loads(p, found) ==
  [p EXCEPT !.loaded = found, !.ticked = found, !.rom = found # {},
            !.valOn = found # {} /\ p.connected, !.changed = p.validating, !.gained = FALSE]

\* A slip: no session is started for the new ROM.
RefreshValidatorOnly ==
  /\ AtHand
  /\ \E found \in SUBSET Watched(panel.boxes) : panel' = Loads(panel, found)
  /\ UNCHANGED <<phase, told, dialogs, late>>

\* refreshValidatorFromDoc, for the document or for the axis mode (onYAxisModeChanged).
RefreshValidatorFromDoc ==
  /\ AtHand
  /\ \E found \in SUBSET Watched(panel.boxes), written \in BOOLEAN :
       LET p == Loads(panel, found) IN
       panel' = IF p.rom /\ p.connected THEN TryAutoStart(p, written) ELSE p
  /\ UNCHANGED <<phase, told, dialogs, late>>

\* toggleDatalog
ToggleDatalog ==
  /\ TabsAtHand /\ panel.toolsOn /\ panel.connected
  /\ IF panel.datalog
     THEN /\ panel' = [panel EXCEPT !.polled = "none", !.datalog = FALSE]
          /\ UNCHANGED <<phase, told, dialogs>>
     ELSE StopValidationThen(panel, "datalog")
  /\ UNCHANGED late

\* toggleValidation
ToggleValidation ==
  /\ TabsAtHand /\ panel.valOn
  /\ IF panel.validating THEN StopValidationThen(panel, "none")
     ELSE /\ \E written \in BOOLEAN : panel' = StartValidation(panel, written)
          /\ UNCHANGED <<phase, told, dialogs>>
  /\ UNCHANGED late

\* toggleCanSniff: it stops a datalog, then a session.
ToggleCanSniff ==
  /\ TabsAtHand /\ panel.toolsOn /\ panel.connected
  /\ IF panel.sniff
     THEN /\ panel' = [panel EXCEPT !.monitor = FALSE, !.sniff = FALSE]
          /\ UNCHANGED <<phase, told, dialogs>>
     ELSE StopValidationThen(
            IF panel.datalog THEN [panel EXCEPT !.polled = "none", !.datalog = FALSE]
            ELSE panel, "sniff")
  /\ UNCHANGED late

\* toggleCsv: the log is closed, or a file is asked for.
ToggleCsv ==
  /\ TabsAtHand
  /\ IF panel.csv # "none"
     THEN panel' = [panel EXCEPT !.csv = "none"] /\ UNCHANGED dialogs
     ELSE /\ dialogs' = <<[rest |-> "csv", old |-> FALSE]>>
          /\ UNCHANGED panel
  /\ UNCHANGED <<phase, told, late>>

\* The top dialog is closed, and the slot that opened it goes on.  For the log, a file
\* was chosen and opened, or not.
CloseDialog ==
  /\ Quiet /\ dialogs # <<>>
  /\ LET top == dialogs[Len(dialogs)] IN
     /\ Resume(panel, top.rest)
     /\ late' = (late \/ (top.old /\ top.rest \notin {"none", "csv"}))
  /\ dialogs' = SubSeq(dialogs, 1, Len(dialogs) - 1)

ChooseCsv ==
  /\ Quiet /\ dialogs # <<>> /\ dialogs[Len(dialogs)].rest = "csv"
  /\ panel' = [panel EXCEPT !.csv = IF panel.validating THEN "rows" ELSE "values"]
  /\ dialogs' = SubSeq(dialogs, 1, Len(dialogs) - 1)
  /\ UNCHANGED <<phase, told, late>>

-----------------------------------------------------------------------------

Slots == OnConnected \/ OnDisconnected \/ OnError

PanelNext ==
  \/ Slots \/ OnPidResult \/ DriverEstablishes \/ DriverFails \/ TryAutoReconnect
  \/ ToggleConnect \/ OnAutoReconnectToggled \/ OnDriveModeToggled \/ ApplyRoutePreset
  \/ OnCategoryFilterChanged \/ OnRuleCellChanged
  \/ OnDriveSessionClicked \/ RefreshValidatorFromDoc
  \/ ToggleDatalog \/ ToggleValidation \/ ToggleCanSniff \/ ToggleCsv
  \/ CloseDialog \/ ChooseCsv

\* Signals reach their slots, and an armed timer fires.
PanelFairness == WF_panelVars(Slots) /\ WF_panelVars(TryAutoReconnect)

PanelSpec == PanelInit /\ [][PanelNext]_panelVars /\ PanelFairness

-----------------------------------------------------------------------------
(* Properties. *)

PanelTypeOK ==
  /\ phase \in {"idle", "opening", "ready"}
  /\ panel \in PanelType
  /\ dialogs \in Seq([rest : Rests, old : BOOLEAN]) /\ Len(dialogs) <= MaxDialogs
  /\ late \in BOOLEAN

\* Once the slots have run the panel knows whether it is connected, no connection is under
\* way that the user did not ask for or has given up, and the buttons tell which it is:
\* whoever of the timer, the user and the driver began or ended it.  The buttons may lie
\* when the summary of a session was left open until the link had changed.
PanelAgrees ==
  Quiet =>
    /\ panel.connected = (phase = "ready")
    /\ phase # "idle" => panel.want
    /\ dialogs = <<>> /\ ~late =>
         panel.stopShown = panel.connected /\ panel.toolsOn = panel.connected

\* A session, a datalog or a CAN monitor that is shown is what the driver does, and the
\* driver polls for one that is shown, with the same exception.
AcquisitionsReal ==
  Quiet /\ ~late =>
    /\ panel.validating => phase = "ready" /\ panel.polled = "tune"
    /\ panel.datalog => phase = "ready" /\ panel.polled = "datalog"
    /\ panel.polled # "none" => panel.validating \/ panel.datalog
    /\ panel.monitor => panel.sniff

\* Drive mode needs no other action on the road: whatever order the connection, the ROM,
\* the categories and the mode come in, and whatever was lost, a connected panel in drive
\* mode that has a tune is in a session, which polls all it judges.  Two cases are left
\* out, where the code does not do it: a tune that became ready by its boxes alone
\* (`gained`), for which no session is tried, and a session under which the tune was
\* loaded again, rules were enabled or the boxes left none or brought others (`changed`,
\* the route preset included): it polls what it polled before, and may judge nothing.
DriveModeMeasures ==
  AtHand /\ panel.driveMode /\ panel.connected =>
    /\ panel.rom /\ ~panel.gained => panel.validating
    /\ panel.validating /\ ~panel.changed => panel.rom /\ panel.ticked \subseteq panel.asked

\* A link lost or a connection failed is tried again, a dialog being open or not, unless
\* the user gives up: the driver is called, and succeeds or tells why it does not.  A port
\* that is gone comes back at some time.
Reconnects ==
  (panel.want /\ panel.auto /\ phase = "idle" /\ Quiet) ~>
    (phase # "idle" \/ ~Quiet \/ ~panel.want \/ ~panel.auto)
=============================================================================
