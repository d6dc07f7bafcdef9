----------------------------- MODULE MCHardware ------------------------------
(***************************************************************************)
(* Small instances of the parts of ECU Studio and ECU Drive that face      *)
(* hardware or another process.  They share no state in the code: each     *)
(* behaviour is one of one part, and the other parts stay as they began.   *)
(***************************************************************************)
EXTENDS ObdPanel, Mpps, BusVerification, CanPanel, AndroidBt,
        LoggingService, TuneValidation, BoostBanner

VARIABLE part

panelRest == <<mppsVars, busVars, canVars, btVars, serviceVars, validationVars, vars>>
mppsRest == <<panelVars, busVars, canVars, btVars, serviceVars, validationVars, vars>>
busRest == <<panelVars, mppsVars, canVars, btVars, serviceVars, validationVars, vars>>
canRest == <<panelVars, mppsVars, busVars, btVars, serviceVars, validationVars, vars>>
btRest == <<panelVars, mppsVars, busVars, canVars, serviceVars, validationVars, vars>>
serviceRest == <<panelVars, mppsVars, busVars, canVars, btVars, validationVars, vars>>
verdictRest == <<panelVars, mppsVars, busVars, canVars, btVars, serviceVars, vars>>
bannerRest == <<panelVars, mppsVars, busVars, canVars, btVars, serviceVars, validationVars>>

-----------------------------------------------------------------------------
(* Two tunes: one with a rule that is disabled, a map that is not found and one of a single       *)
(* column; the other with an axis that falls and maps whose measure depends on the category.      *)

MapOf(c, u, xs, ys, rows) ==
  [name |-> c, boostName |-> c = "boost", category |-> c, unit |-> u, found |-> TRUE,
   enabled |-> TRUE, finger |-> <<Head(ys), Last(ys)>>, x |-> xs, y |-> ys, cells |-> rows]
Small == <<<<1, 1>>, <<2, 2>>>>
Large == <<<<0, 10, 20>>, <<10, 30, 20>>>>
MCTunes ==
  {<<MapOf("boost", "pressure", <<0, 2, 4>>, <<0, 2>>, Large),
     MapOf("air", "air", <<1, 3>>, <<-1, 0, 1>>, <<<<1, 2>>, <<4, 2>>, <<0, 5>>>>),
     [MapOf("smoke", "lambda", <<0, 1>>, <<0, 2>>, Small) EXCEPT !.enabled = FALSE],
     [MapOf("boost", "pressure", <<0, 1>>, <<0, 2>>, Small) EXCEPT !.found = FALSE],
     MapOf("boost", "pressure", <<1>>, <<0, 2>>, <<<<1>>, <<2>>>>),
     MapOf("torque", "pressure", <<0, 2, 4>>, <<0, 2>>, Large)>>,
   <<MapOf("fuel", "other", <<0, 1, 3>>, <<2, 0>>, Large),
     [MapOf("smoke", "other", <<0, 2, 4>>, <<0, 2>>, Large) EXCEPT !.boostName = TRUE],
     MapOf("boost", "factor", <<0, 2, 4>>, <<0, 2>>, Large),
     MapOf("boost", "other", <<0, 3, 4>>, <<0, 2>>, Large)>>}

\* All is measured, or one PID is not, or only some, or none.
Live == {"speed", "load", "vehicle", "MAP", "MAF", "AFR", "rail"}
MCSnapshots ==
  {[p \in pids |-> CASE p = "speed" -> r [] p = "load" -> l [] p = "MAP" -> b [] OTHER -> 1] :
     pids \in {Live, Live \ {"load"}, Live \ {"MAP"}, {"speed", "load", "vehicle", "MAF"}, {}},
     r \in {0, 1, 2, 3, 5}, l \in 0..2, b \in {1, 2}}

-----------------------------------------------------------------------------

Parts == {"panel", "mpps", "bus", "can", "bluetooth", "service", "verdict", "banner"}

HardwareInit ==
  /\ part \in Parts
  /\ PanelInit /\ MppsInit /\ BusInit /\ CanInit /\ BtInit /\ ServiceInit /\ ValidationInit /\ Init
  /\ part = "panel" \/ (panel.boxes = BoxCategories /\ ~panel.auto /\ ~panel.driveMode)
  /\ part = "bus" \/ tool = "verify"
  /\ part = "can" \/ interfaces
  /\ part = "verdict" \/ Len(tuned) = 4
  /\ part = "banner" \/ setting = 1

HardwareNext ==
  /\ UNCHANGED part
  /\ \/ part = "panel" /\ PanelNext /\ UNCHANGED panelRest
     \/ part = "mpps" /\ MppsNext /\ UNCHANGED mppsRest
     \/ part = "bus" /\ BusNext /\ UNCHANGED busRest
     \/ part = "can" /\ CanNext /\ UNCHANGED canRest
     \/ part = "bluetooth" /\ BtNext /\ UNCHANGED btRest
     \/ part = "service" /\ ServiceNext /\ UNCHANGED serviceRest
     \/ part = "verdict" /\ ValidationNext /\ UNCHANGED verdictRest
     \/ part = "banner" /\ Next /\ UNCHANGED bannerRest

HardwareSpec ==
  /\ HardwareInit /\ [][HardwareNext]_<<part, panelVars, panelRest>>
  /\ PanelFairness /\ BusFairness /\ CanFairness /\ ServiceFairness

\* Every part keeps its type.
HardwareTypeOK ==
  part \in Parts /\ PanelTypeOK /\ MppsTypeOK /\ BusTypeOK /\ CanTypeOK /\ BtTypeOK
  /\ ServiceTypeOK /\ TypeOK

\* What the panel shows as measured is measured, drive mode needs no other action, and what is
\* measured is judged against what the maps of the tune hold.
AcquisitionsSound ==
  AcquisitionsReal /\ DriveModeMeasures /\ (part = "verdict" => VerdictsSound)

\* A verification on the bus ends, and a capture that died gives its buttons back,
\* and a driving session that lasts is kept awake.
MeasuresEnd == VerificationEnds /\ DeadCaptureReleased /\ SessionKeptAwake

\* The phone lets go of the dongle and of its wake lock.
PhoneLetsGo == DongleLetGo /\ WakeLockReleased
=============================================================================
