---------------------------- MODULE BoostBanner -----------------------------
(***************************************************************************)
(* The boost banner of a driving session (ECU Studio's OBD panel and ECU   *)
(* Drive): each new value gives the boost map a result, StatusHysteresis   *)
(* decides what the banner shows, and maybeAlertFail whether to beep.      *)
(* A value that gives no result reaches neither.  In ECU Drive the number  *)
(* of failures is 3; in ECU Studio it is a setting that the user may       *)
(* change during the session, which only maybeAlertFail then follows.      *)
(***************************************************************************)
EXTENDS Integers

CONSTANTS
  Needs,        \* values of the "Alerte x" setting: {3} in ECU Drive
  OkNeed,       \* m_okNeed: 5 in both
  Adjustable,   \* may the setting change during a session?
  MaxStreak     \* bound: so many failures without an Ok, so many Oks in a row

ASSUME BannerAssumption ==
  /\ Needs \subseteq Nat \ {0} /\ OkNeed \in Nat \ {0}
  /\ Adjustable \in BOOLEAN /\ MaxStreak \in Nat

VARIABLES
  running,      \* a session is on
  setting,      \* m_alertSpin
  failNeed, failStreak, okStreak, shown,        \* StatusHysteresis
  lastAlertAt,
  fails, oks,   \* failures, and Oks, in a row: what the last results really were
  unheard,      \* failures in a row since the last beep
  beep          \* the last result made it beep

hystVars == <<failNeed, failStreak, okStreak, shown>>
seenVars == <<fails, oks, unheard, beep>>
vars == <<running, setting, hystVars, lastAlertAt, seenVars>>

Shown == {"NoData", "Ok", "Warn", "Fail"}

Init ==
  /\ running = FALSE /\ setting \in Needs
  /\ failNeed = 3 /\ failStreak = 0 /\ okStreak = 0 /\ shown = "NoData"
  /\ lastAlertAt = 0
  /\ fails = 0 /\ oks = 0 /\ unheard = 0 /\ beep = FALSE

\* StatusHysteresis::update

\* A slip: the banner turns red one failure late.
UpdateFailLate ==
  /\ failStreak' = failStreak + 1 /\ okStreak' = 0
  /\ shown' = IF failStreak >= failNeed THEN "Fail"
              ELSE IF shown = "NoData" THEN "Warn" ELSE shown

UpdateFail ==
  /\ failStreak' = failStreak + 1 /\ okStreak' = 0
  /\ shown' = IF failStreak' >= failNeed THEN "Fail"
              ELSE IF shown = "NoData" THEN "Warn" ELSE shown

\* A slip: a warning does not interrupt the Oks.
UpdateWarnKeepsOks ==
  /\ UNCHANGED <<failStreak, okStreak>>
  /\ shown' = IF shown = "Fail" THEN "Fail" ELSE "Warn"

\* A warning does not interrupt the failures.
UpdateWarn ==
  /\ okStreak' = 0 /\ UNCHANGED failStreak
  /\ shown' = IF shown = "Fail" THEN "Fail" ELSE "Warn"

UpdateOk ==
  /\ failStreak' = 0 /\ okStreak' = okStreak + 1
  /\ shown' = IF shown \in {"Fail", "Warn"} /\ okStreak' < OkNeed THEN shown ELSE "Ok"

\* A slip: the beep is heard at a multiple that was already passed, never at a new one.
AlertsBehind ==
  /\ shown' = "Fail" /\ failStreak' >= setting
  /\ failStreak' < lastAlertAt /\ failStreak' % setting = 0

\* maybeAlert, maybeAlertFail: called while the banner shows a failure.
Alerts ==
  /\ shown' = "Fail" /\ failStreak' >= setting
  /\ failStreak' # lastAlertAt /\ failStreak' % setting = 0

Beeps == lastAlertAt' = (IF Alerts THEN failStreak' ELSE lastAlertAt) /\ beep' = Alerts

Fail ==
  /\ running /\ failStreak < MaxStreak
  /\ UpdateFail /\ Beeps
  /\ fails' = fails + 1 /\ oks' = 0
  /\ unheard' = IF Alerts THEN 0 ELSE unheard + 1
  /\ UNCHANGED <<running, setting, failNeed>>

Warn ==
  /\ running
  /\ UpdateWarn /\ Beeps
  /\ fails' = 0 /\ oks' = 0 /\ unheard' = 0
  /\ UNCHANGED <<running, setting, failNeed>>

Ok ==
  /\ running /\ okStreak < MaxStreak
  /\ UpdateOk /\ Beeps
  /\ fails' = 0 /\ oks' = oks + 1 /\ unheard' = 0
  /\ UNCHANGED <<running, setting, failNeed>>

StartSession ==
  /\ ~running /\ running' = TRUE
  /\ failNeed' = setting /\ failStreak' = 0 /\ okStreak' = 0 /\ shown' = "NoData"
  /\ lastAlertAt' = 0
  /\ fails' = 0 /\ oks' = 0 /\ unheard' = 0 /\ beep' = FALSE
  /\ UNCHANGED setting

StopSession ==
  /\ running /\ running' = FALSE
  /\ UNCHANGED <<setting, hystVars, lastAlertAt, seenVars>>

ChangeSetting ==
  /\ running => Adjustable
  /\ setting' \in Needs
  /\ UNCHANGED <<running, hystVars, lastAlertAt, seenVars>>

Next == Fail \/ Warn \/ Ok \/ StartSession \/ StopSession \/ ChangeSetting

Spec == Init /\ [][Next]_vars

-----------------------------------------------------------------------------
(* Properties. *)

\* The type invariant; the Oks counted are those really in a row, and the
\* failures counted are at least those.
TypeOK ==
  /\ running \in BOOLEAN /\ setting \in Needs /\ failNeed \in Nat \ {0}
  /\ failStreak \in Nat /\ okStreak \in Nat /\ shown \in Shown
  /\ lastAlertAt \in Nat /\ beep \in BOOLEAN
  /\ fails \in 0..failStreak /\ oks = okStreak /\ unheard \in 0..fails

\* "Fail immediat apres N fails" (TuneValidation.hpp:120): the banner is red as
\* soon as the last N results are failures, whatever it showed before.
RedAfterFailures == fails >= failNeed => shown = "Fail"

\* "OK seulement apres N oks": once it showed trouble, the banner turns green only
\* after that many Oks in a row.
GreenAfterOks ==
  [][(shown \in {"Warn", "Fail"} /\ shown' = "Ok") => (oks' >= OkNeed)]_vars

\* A boost that keeps failing is heard: twice the number of failures never pass
\* without a beep, whatever the earlier failures of the session.
Heard == running => unheard < 2 * setting
=============================================================================
