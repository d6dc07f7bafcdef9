-------------------------- MODULE DriveController ---------------------------
(***************************************************************************)
(* ECU Drive's controller over the ELM327 driver (apps/ecu-drive): what    *)
(* the user does on the three pages, and the slots that hear the driver's  *)
(* signals, decide which PIDs are polled, keep the driving session and the *)
(* reading of trouble codes in step with the link, and tell the user why a *)
(* link went down.  The slots take the place of Deliver: they run before   *)
(* anything else does.                                                     *)
(*                                                                         *)
(* Abstractions.  The values measured, the tables shown, the CSV file and  *)
(* the text of messages are left out; m_supportProbed too, because an      *)
(* empty m_ecuSupportedPids has the same effect.  A list of PIDs is a set, *)
(* and m_pendingDisconnectReason is whether it is empty.  The trouble      *)
(* codes are the modes (03, 07) whose answers hold one.                    *)
(***************************************************************************)
EXTENDS Elm327, SequencesExt

CONSTANTS
  LivePids, Essentials,         \* catalogue of the sensors page, and what it always keeps
  TurboPids, TurboFallback,     \* polled on the other pages, and if all are unsupported
  BasePids,                     \* RPM, load and speed: required by every tune, or none
  TunePids,                     \* required by the tune the user loads, BasePids included
  EcuPids,                      \* what the ECU's bitmap declares
  Users                         \* what the user does, within UserNames

UserNames == {"session", "tune", "dtc", "page"}

ASSUME DriveAssumption ==
  /\ LivePids \cup TurboPids \cup EcuPids \cup TunePids \subseteq Pids
  /\ IsFiniteSet(LivePids \cup TurboPids \cup TunePids)
  /\ Essentials \subseteq LivePids /\ TurboFallback \subseteq TurboPids
  /\ BasePids \subseteq TunePids /\ BasePids # {} /\ TurboFallback # {}
  /\ Users \subseteq UserNames

VARIABLES
  connected, userDisconnect,
  linkLossNotified,
  reason,               \* m_pendingDisconnectReason is not empty
  supported,            \* m_ecuSupportedPids
  unsupported,          \* m_knownUnsupported
  rebuildPending,
  sessionOn,
  ticks,                \* the session has received a value
  tuneReady,            \* m_validator.isReady()
  uiPage, dtcAwaiting, dtcClearPending,
  dtcFlags,             \* modes that gave at least one code shown
  lost, told            \* since the last step that is no slot: an error came, a dialog
                        \* was shown

linkedVars == <<connected, userDisconnect, linkLossNotified, reason>>
pidSets == <<supported, unsupported>>
sessionState == <<sessionOn, ticks>>
dtcVars == <<dtcAwaiting, dtcClearPending, dtcFlags>>
toldVars == <<lost, told>>
driveVars == <<linkedVars, pidSets, rebuildPending, sessionState, tuneReady, uiPage, dtcVars,
               toldVars>>
allVars == <<vars, driveVars>>

DriveInit ==
  /\ Init
  /\ connected = FALSE /\ userDisconnect = FALSE /\ linkLossNotified = FALSE
  /\ reason = FALSE /\ supported = {} /\ unsupported = {} /\ rebuildPending = FALSE
  /\ sessionOn = FALSE /\ ticks = FALSE /\ tuneReady = FALSE /\ uiPage = 0
  /\ dtcAwaiting = 0 /\ dtcClearPending = FALSE /\ dtcFlags = {}
  /\ lost = FALSE /\ told = FALSE

-----------------------------------------------------------------------------
(* Which PIDs are polled. *)

\* pidLikelySupported
Likely(p) == p \notin unsupported /\ (supported = {} \/ p \in supported)

SensorsPollPids == {p \in LivePids : Likely(p)} \cup (Essentials \ unsupported)
RequiredPids == IF tuneReady THEN TunePids ELSE BasePids

Either(pids, fallback) == IF pids = {} THEN fallback ELSE pids

\* What applyPollingForCurrentPage, ensureSensorsPolling and ensureTurboPolling ask
\* the driver to poll.
WantedPids ==
  CASE sessionOn -> RequiredPids \cup (IF uiPage = 1 THEN SensorsPollPids ELSE {})
    [] ~sessionOn /\ uiPage = 1 -> Either(SensorsPollPids, LivePids)
    [] OTHER -> Either(TurboPids \ unsupported, TurboFallback)

DtcBusy == dtcAwaiting > 0 \/ dtcClearPending

\* The driver is not called.
Nothing(out) ==
  /\ signals' = out
  /\ UNCHANGED <<linkVars, sessionVars, pipeVars, pollVars, probeVars, later>>

\* A slip: polling is not held back while trouble codes are read.
ApplyPollingAlways(out) ==
  \/ ~connected' /\ Nothing(out)
  \/ connected' /\ StartPolling(SetToSeq(WantedPids'), out)

\* applyPollingForCurrentPage, on the controller's new state.
ApplyPolling(out) ==
  \/ (~connected' \/ DtcBusy') /\ Nothing(out)
  \/ connected' /\ ~DtcBusy' /\ StartPolling(SetToSeq(WantedPids'), out)

\* stopSession's calls: the poll is stopped first.
StopThenApply(out) ==
  \/ (~connected' \/ DtcBusy') /\ StopPolling(out)
  \/ connected' /\ ~DtcBusy' /\ StartPolling(SetToSeq(WantedPids'), out)

-----------------------------------------------------------------------------
(* Slots.  Each handles the first of `signals`. *)

Rest == Tail(signals)

OnConnected ==
  /\ connected' = TRUE /\ linkLossNotified' = FALSE /\ reason' = FALSE
  /\ supported' = {} /\ unsupported' = {}
  /\ ProbeSupportedPids(Rest)
  /\ UNCHANGED <<userDisconnect, rebuildPending, sessionState, tuneReady, uiPage, dtcVars,
                 toldVars>>

\* A slip: no dialog once an error was notified.
OnDisconnectedSilent ==
  LET summary == sessionOn /\ ticks IN
  /\ connected' = FALSE /\ userDisconnect' = FALSE
  /\ supported' = {} /\ unsupported' = {}
  /\ sessionOn' = FALSE /\ linkLossNotified' = FALSE
  /\ reason' = FALSE
  /\ told' = (told \/ summary \/ (~linkLossNotified /\ ~sessionOn))
  /\ UNCHANGED <<rebuildPending, ticks, tuneReady, uiPage, dtcVars, lost>>
  /\ IF sessionOn THEN StopThenApply(Rest) ELSE Nothing(Rest)

\* A slip: m_userDisconnect is not cleared.
OnDisconnectedKept ==
  LET summary == sessionOn /\ ticks
      why == ~summary /\ (reason \/ (~userDisconnect /\ sessionOn))
  IN
  /\ connected' = FALSE /\ UNCHANGED userDisconnect
  /\ supported' = {} /\ unsupported' = {}
  /\ sessionOn' = FALSE /\ linkLossNotified' = FALSE
  /\ reason' = (~linkLossNotified /\ why)
  /\ told' = (told \/ summary \/ (~sessionOn /\ (linkLossNotified => why)))
  /\ UNCHANGED <<rebuildPending, ticks, tuneReady, uiPage, dtcVars, lost>>
  /\ IF sessionOn THEN StopThenApply(Rest) ELSE Nothing(Rest)

\* The session ends with its summary if there is one, which gives the reason too;
\* a dialog gives the reason an error left, or tells of the disconnection.
OnDisconnected ==
  LET summary == sessionOn /\ ticks
      why == ~summary /\ (reason \/ (~userDisconnect /\ sessionOn))
  IN
  /\ connected' = FALSE /\ userDisconnect' = FALSE
  /\ supported' = {} /\ unsupported' = {}
  /\ sessionOn' = FALSE /\ linkLossNotified' = FALSE
  /\ reason' = (~linkLossNotified /\ why)
  /\ told' = (told \/ summary \/ (~sessionOn /\ (linkLossNotified => why)))
  /\ UNCHANGED <<rebuildPending, ticks, tuneReady, uiPage, dtcVars, lost>>
  /\ IF sessionOn THEN StopThenApply(Rest) ELSE Nothing(Rest)

OnErrorOccurred ==
  LET summary == sessionOn /\ ticks IN
  /\ linkLossNotified' = TRUE /\ reason' = ~summary /\ connected' = FALSE
  /\ sessionOn' = FALSE
  /\ lost' = TRUE /\ told' = (told \/ summary \/ ~sessionOn)
  /\ UNCHANGED <<userDisconnect, pidSets, rebuildPending, ticks, tuneReady, uiPage, dtcVars>>
  /\ IF sessionOn THEN StopThenApply(Rest) ELSE Nothing(Rest)

\* A slip: polling is not taken up again after the codes were cleared.
OnStatusNoPolling ==
  /\ dtcClearPending' = FALSE
  /\ dtcFlags' = IF dtcClearPending /\ Head(signals).arg = "cleared" THEN {} ELSE dtcFlags
  /\ UNCHANGED <<linkedVars, pidSets, rebuildPending, sessionState, tuneReady, uiPage,
                 dtcAwaiting, toldVars>>
  /\ Nothing(Rest)

\* Any status ends the clearing of the codes.
OnStatus ==
  /\ dtcClearPending' = FALSE
  /\ dtcFlags' = IF dtcClearPending /\ Head(signals).arg = "cleared" THEN {} ELSE dtcFlags
  /\ UNCHANGED <<linkedVars, pidSets, rebuildPending, sessionState, tuneReady, uiPage,
                 dtcAwaiting, toldVars>>
  /\ IF dtcClearPending THEN ApplyPolling(Rest) ELSE Nothing(Rest)

\* The bitmap of block 00 is EcuPids.
OnSupportedPidsReady ==
  /\ supported' = IF "00" \in accum THEN EcuPids ELSE {}
  /\ unsupported' = unsupported \ supported'
  /\ UNCHANGED <<linkedVars, rebuildPending, sessionState, tuneReady, uiPage, dtcVars, toldVars>>
  /\ ApplyPolling(Rest)

OnPidUnsupported ==
  /\ unsupported' = unsupported \cup {Head(signals).arg}
  /\ rebuildPending' = (rebuildPending \/ Head(signals).arg \notin unsupported)
  /\ UNCHANGED <<linkedVars, supported, sessionState, tuneReady, uiPage, dtcVars, toldVars>>
  /\ Nothing(Rest)

\* onPid; runValidation feeds the session.
OnPid ==
  /\ unsupported' = unsupported \ {Head(signals).arg}
  /\ ticks' = (ticks \/ sessionOn)
  /\ UNCHANGED <<linkedVars, supported, rebuildPending, sessionOn, tuneReady, uiPage, dtcVars,
                 toldVars>>
  /\ Nothing(Rest)

\* Codes come from a positive answer to the mode asked for, none from another.
OnDtcsReady ==
  LET mode == Head(signals).arg IN
  /\ dtcFlags' \in {dtcFlags}
       \cup (IF Positive(Cmd("Dtc", mode), Head(signals).answer) THEN {dtcFlags \cup {mode}}
             ELSE {})
  /\ dtcAwaiting' = IF dtcAwaiting > 0 THEN dtcAwaiting - 1 ELSE 0
  /\ UNCHANGED <<linkedVars, pidSets, rebuildPending, sessionState, tuneReady, uiPage,
                 dtcClearPending, toldVars>>
  /\ IF dtcAwaiting' = 0 THEN ApplyPolling(Rest) ELSE Nothing(Rest)

\* rawResponse only goes to the console.
OnRawResponse == Nothing(Rest) /\ UNCHANGED driveVars

Slot ==
  /\ signals # <<>>
  /\ LET name == Head(signals).name IN
     \/ name = "connected" /\ OnConnected
     \/ name = "disconnected" /\ OnDisconnected
     \/ name = "errorOccurred" /\ OnErrorOccurred
     \/ name = "status" /\ OnStatus
     \/ name = "supportedPidsReady" /\ OnSupportedPidsReady
     \/ name = "pidUnsupported" /\ OnPidUnsupported
     \/ name = "pidResult" /\ OnPid
     \/ name = "dtcsReady" /\ OnDtcsReady
     \/ name = "rawResponse" /\ OnRawResponse

-----------------------------------------------------------------------------
(* The user, and the controller's timer. *)

Untold == lost' = FALSE /\ told' = FALSE

\* Connecting over Bluetooth first asks for a permission; it is then as over USB.
ToggleConnect ==
  /\ Quiet
  /\ UNCHANGED <<connected, linkLossNotified, reason, pidSets, rebuildPending, sessionState,
                 tuneReady, uiPage, dtcVars>>
  /\ \/ connected /\ userDisconnect' = TRUE /\ DisconnectPort(<<>>)
     \/ /\ ~connected /\ Pending(later) < MaxPending
        /\ UNCHANGED userDisconnect
        /\ \/ \E p \in Ports \cap {"tty", "acm"} : ConnectPort(p, TRUE)
           \/ "bt" \in Ports /\ ConnectBluetooth

\* The button needs a link and a tune; the session, a tune that is ready.
StartSession ==
  /\ Quiet /\ "session" \in Users
  /\ ~sessionOn /\ connected /\ tuneReady
  /\ sessionOn' = TRUE /\ ticks' = FALSE
  /\ UNCHANGED <<linkedVars, pidSets, rebuildPending, tuneReady, uiPage, dtcVars>>
  /\ ApplyPolling(<<>>)

StopSession ==
  /\ Quiet /\ sessionOn
  /\ sessionOn' = FALSE /\ reason' = (reason /\ ~ticks)
  /\ UNCHANGED <<connected, userDisconnect, linkLossNotified, pidSets, rebuildPending, ticks,
                 tuneReady, uiPage, dtcVars>>
  /\ StopThenApply(<<>>)

\* A tune that cannot be used clears the validator; polling is left as it is.
LoadTuneFile ==
  /\ Quiet /\ "tune" \in Users
  /\ tuneReady' \in BOOLEAN
  /\ UNCHANGED <<linkedVars, pidSets, rebuildPending, sessionState, uiPage, dtcVars>>
  /\ Nothing(<<>>)

\* A slip: the page is noted and the polling not adapted.
SetUiPageOnly(page) ==
  /\ Quiet /\ "page" \in Users
  /\ page # uiPage \/ page = 1
  /\ uiPage' = page
  /\ UNCHANGED <<linkedVars, pidSets, rebuildPending, sessionState, tuneReady, dtcVars>>
  /\ Nothing(<<>>)

\* setUiPage; coming back to the sensors page takes its polling up again.
SetUiPage(page) ==
  /\ Quiet /\ "page" \in Users
  /\ page # uiPage \/ page = 1
  /\ uiPage' = page
  /\ UNCHANGED <<linkedVars, pidSets, rebuildPending, sessionState, tuneReady, dtcVars>>
  /\ ApplyPolling(<<>>)

\* readDtcs of the controller: both modes.
UserReadDtcs ==
  /\ Quiet /\ "dtc" \in Users /\ Len(queue) < MaxQueue
  /\ connected /\ ~DtcBusy
  /\ dtcFlags' = {} /\ dtcAwaiting' = 2
  /\ UNCHANGED <<linkedVars, pidSets, rebuildPending, sessionState, tuneReady, uiPage,
                 dtcClearPending>>
  /\ Submit(<<Cmd("Dtc", "03"), Cmd("Dtc", "07")>>, <<>>)
  /\ StopPollingThen /\ UNCHANGED probeVars

\* clearDtcs of the controller; the button needs a code shown.
UserClearDtcs ==
  /\ Quiet /\ "dtc" \in Users /\ Len(queue) < MaxQueue
  /\ connected /\ ~DtcBusy /\ dtcFlags # {}
  /\ dtcClearPending' = TRUE
  /\ UNCHANGED <<linkedVars, pidSets, rebuildPending, sessionState, tuneReady, uiPage,
                 dtcAwaiting, dtcFlags>>
  /\ Submit(<<Cmd("ClearDtc", "")>>, <<>>)
  /\ StopPollingThen /\ UNCHANGED probeVars

\* The console and the actuators.
UserSendRawCommand ==
  /\ Quiet /\ connected /\ Len(queue) < MaxQueue
  /\ \E text \in RawCommands : SendRawCommand(text, <<>>)
  /\ UNCHANGED <<linkedVars, pidSets, rebuildPending, sessionState, tuneReady, uiPage, dtcVars>>

\* 50 ms after a PID was found unsupported.
FireRebuild ==
  /\ Quiet /\ rebuildPending
  /\ rebuildPending' = FALSE
  /\ UNCHANGED <<linkedVars, pidSets, sessionState, tuneReady, uiPage, dtcVars>>
  /\ ApplyPolling(<<>>)

User ==
  \/ ToggleConnect
  \/ StartSession \/ StopSession \/ LoadTuneFile
  \/ \E page \in 0..2 : SetUiPage(page)
  \/ UserReadDtcs \/ UserClearDtcs \/ UserSendRawCommand

Driver ==
  /\ React
  /\ UNCHANGED <<linkedVars, pidSets, rebuildPending, sessionState, tuneReady, uiPage, dtcVars>>

DriveNext == Slot \/ ((User \/ FireRebuild \/ Driver) /\ Untold)

DriveSpec == DriveInit /\ [][DriveNext]_allVars

-----------------------------------------------------------------------------
(* Properties. *)

\* Once the slots have run the controller and the driver agree on the link, no
\* session outlives it, and a disconnection the user asked for is not taken for
\* the explanation of a later loss.
LinkAgrees ==
  Quiet => connected = ready /\ (sessionOn => connected) /\ ~userDisconnect

\* A failed connection or a lost link is always explained: whatever errorOccurred
\* and disconnected leave to each other, one of them shows a dialog.
LossExplained == Quiet /\ lost => told

\* Nothing polls while trouble codes are read or cleared, whatever the user, the
\* debounce timer or the probe do meanwhile.
DtcsAlone == DtcBusy => ~pollOn

\* Whenever no probe and no reading of the codes is left to do, the page shown is
\* polled: each of them, and each way out of a session, takes the polling up again.
PollingResumes == Quiet /\ connected /\ ~DtcBusy /\ supportRemaining = 0 => pollOn

\* What is polled fits what the user looks at: outside a session, and off the
\* sensors page, only the turbo PIDs; in a session RPM, load and speed always.
PollingFits ==
  Quiet /\ pollOn =>
    LET polled == {pollPids[i] : i \in 1..Len(pollPids)} IN
    IF sessionOn THEN BasePids \subseteq polled
    ELSE polled \subseteq IF uiPage = 1 THEN LivePids ELSE TurboPids

Idle == Quiet /\ connected /\ ~busy /\ queue = <<>> /\ ~canMode

\* "Connecte l'ELM pour lire les DTC" (DiagPage.qml:239): when connected and idle the
\* codes can be read.
DtcsReadable == Idle => ~DtcBusy
=============================================================================
