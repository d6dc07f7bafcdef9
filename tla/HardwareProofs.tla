--------------------------- MODULE HardwareProofs ---------------------------
(***************************************************************************)
(* What is proved of the parts that face hardware or another process, for  *)
(* every instance of each: the boost banner, the measures on the CAN bus,  *)
(* the MPPS programmer, the Bluetooth helper and the logging service; then *)
(* of the whole of MCHardware, each part of which behaves as if alone.     *)
(***************************************************************************)
EXTENDS MCHardware, PanelProofs, FiniteSetTheorems, WellFoundedInduction

(***************************************************************************)
(* The boost banner.  The theorems read the results that really came (fails, *)
(* oks) against what StatusHysteresis shows, so they rest on how its two   *)
(* counters relate to them: failStreak counts at least the failures in a row *)
(* (a warning does not reset it), okStreak exactly the Oks in a row.       *)
(***************************************************************************)

\* Whatever made the failures, once there are enough of them the banner is red.
Red == failStreak >= failNeed => shown = "Fail"

\* Every reachable state of the banner has its type, and its counters are at
\* least (failures) and exactly (Oks) what the last results were.
THEOREM BannerTyped == Spec => []TypeOK
<1>1. Init => TypeOK
  <2> SUFFICES ASSUME Init PROVE TypeOK
    OBVIOUS
  <2>1. fails \in 0..failStreak /\ oks = okStreak /\ unheard \in 0..fails
    BY DEF Init
  <2>2. running \in BOOLEAN /\ beep \in BOOLEAN
    BY DEF Init
  <2>3. setting \in Needs /\ failNeed \in Nat \ {0} /\ shown \in Shown
    BY DEF Init, Shown
  <2>4. failStreak \in Nat /\ okStreak \in Nat /\ lastAlertAt \in Nat
    BY DEF Init
  <2> QED
    BY <2>1, <2>2, <2>3, <2>4 DEF TypeOK
<1>2. TypeOK /\ [Next]_vars => TypeOK'
  <2> SUFFICES ASSUME TypeOK, [Next]_vars PROVE TypeOK'
    OBVIOUS
  <2> USE BannerAssumption DEF TypeOK, Shown
  <2>1. CASE Fail
    BY <2>1 DEF Fail, UpdateFail, Beeps, Alerts
  <2>2. CASE Warn
    BY <2>2 DEF Warn, UpdateWarn, Beeps, Alerts
  <2>3. CASE Ok
    BY <2>3 DEF Ok, UpdateOk, Beeps, Alerts
  <2>4. CASE StartSession
    <3>1. running' \in BOOLEAN /\ beep' \in BOOLEAN
      BY <2>4 DEF StartSession
    <3>2. setting' \in Needs /\ failNeed' \in Nat \ {0} /\ shown' \in Shown
      BY <2>4 DEF StartSession
    <3>3. failStreak' \in Nat /\ okStreak' \in Nat /\ lastAlertAt' \in Nat
      BY <2>4 DEF StartSession
    <3>4. fails' \in 0..failStreak' /\ oks' = okStreak' /\ unheard' \in 0..fails'
      BY <2>4 DEF StartSession
    <3> QED
      BY <3>1, <3>2, <3>3, <3>4 DEF TypeOK
  <2>5. CASE StopSession
    BY <2>5 DEF StopSession, hystVars, seenVars
  <2>6. CASE ChangeSetting
    BY <2>6 DEF ChangeSetting, hystVars, seenVars
  <2>7. CASE UNCHANGED vars
    BY <2>7 DEF vars, hystVars, seenVars
  <2> QED
    BY <2>1, <2>2, <2>3, <2>4, <2>5, <2>6, <2>7 DEF Next
<1> QED
  BY <1>1, <1>2, PTL DEF Spec

LEMMA RedStays == TypeOK /\ Red /\ [Next]_vars => Red'
<1> SUFFICES ASSUME TypeOK, Red, [Next]_vars PROVE Red'
  OBVIOUS
<1> USE DEF TypeOK, Red
<1>1. CASE Fail
  BY <1>1 DEF Fail, UpdateFail
<1>2. CASE Warn
  BY <1>2 DEF Warn, UpdateWarn
<1>3. CASE Ok
  BY <1>3 DEF Ok, UpdateOk
<1>4. CASE StartSession
  BY <1>4, BannerAssumption DEF StartSession
<1>5. CASE StopSession \/ ChangeSetting \/ UNCHANGED vars
  BY <1>5 DEF StopSession, ChangeSetting, vars, hystVars
<1> QED
  BY <1>1, <1>2, <1>3, <1>4, <1>5 DEF Next

\* StatusHysteresis::update shows a failure as soon as the last m_failNeed
\* results are failures, whatever came before and whatever the thresholds are.
THEOREM FailuresShow == Spec => []RedAfterFailures
<1>1. Init => Red
  BY DEF Init, Red
<1>2. TypeOK /\ Red => RedAfterFailures
  BY DEF TypeOK, Red, RedAfterFailures
<1> QED
  BY <1>1, <1>2, RedStays, BannerTyped, PTL DEF Spec

LEMMA GreenStep ==
  TypeOK /\ [Next]_vars =>
    [(shown \in {"Warn", "Fail"} /\ shown' = "Ok") => oks' >= OkNeed]_vars
<1> SUFFICES ASSUME TypeOK, Next, shown \in {"Warn", "Fail"}, shown' = "Ok"
             PROVE  oks' >= OkNeed
  OBVIOUS
<1> USE DEF TypeOK
<1>1. CASE Ok
  BY <1>1, BannerAssumption DEF Ok, UpdateOk
<1>2. CASE Fail \/ Warn
  BY <1>2 DEF Fail, UpdateFail, Warn, UpdateWarn
<1>3. CASE StartSession \/ StopSession \/ ChangeSetting
  BY <1>3 DEF StartSession, StopSession, ChangeSetting, hystVars
<1> QED
  BY <1>1, <1>2, <1>3 DEF Next

\* StatusHysteresis::update goes back from a warning or a failure to Ok only
\* after m_okNeed Oks with nothing between them.
THEOREM OksShow == Spec => GreenAfterOks
<1>1. TypeOK /\ [Next]_vars =>
        [(shown \in {"Warn", "Fail"} /\ shown' = "Ok") => (oks' >= OkNeed)]_vars
  BY GreenStep
<1> QED
  BY <1>1, BannerTyped, PTL DEF Spec, GreenAfterOks

-----------------------------------------------------------------------------
(* maybeAlertFail beeps at the multiples of the setting, m_failStreak being *)
(* counted on from failures that a warning interrupted.                     *)

LEMMA ProductAtLeast ==
  ASSUME NEW s \in Nat \ {0}, NEW d \in Nat \ {0}
  PROVE  s * d >= s
OBVIOUS

LEMMA ProductOfDifference ==
  ASSUME NEW s \in Nat, NEW a \in Int, NEW b \in Int
  PROVE  s * (a - b) = s * a - s * b /\ s * a \in Int /\ s * b \in Int
OBVIOUS

\* Quotient and remainder are the only ones.
LEMMA RemainderUnique ==
  ASSUME NEW s \in Nat \ {0}, NEW a \in Nat, NEW b \in Nat,
         NEW q \in 0..(s - 1), NEW r \in 0..(s - 1), s * a + q = s * b + r
  PROVE  q = r
<1>1. CASE a > b
  <2>1. s * (a - b) >= s
    BY <1>1, ProductAtLeast
  <2> QED
    BY <2>1, ProductOfDifference
<1>2. CASE b > a
  <2>1. s * (b - a) >= s
    BY <1>2, ProductAtLeast
  <2> QED
    BY <2>1, ProductOfDifference
<1> QED
  BY <1>1, <1>2

LEMMA Division ==
  ASSUME NEW n \in Nat, NEW s \in Nat \ {0}
  PROVE  n \div s \in Nat /\ n % s \in 0..(s - 1) /\ n = s * (n \div s) + (n % s)
<1> DEFINE d == n \div s
<1>1. d \in Int /\ n % s \in 0..(s - 1) /\ n = s * d + (n % s)
  OBVIOUS
<1> HIDE DEF d
<1>2. ASSUME d < 0 PROVE FALSE
  <2>1. 0 - d \in Nat \ {0}
    BY <1>1, <1>2
  <2>2. s * (0 - d) >= s /\ s * (0 - d) = 0 - s * d /\ s * d \in Int
    BY <1>1, <2>1, ProductAtLeast
  <2> QED
    BY <1>1, <2>2
<1> QED
  BY <1>1, <1>2 DEF d

\* One failure more: the remainder grows by one or starts again.
LEMMA NextRemainder ==
  ASSUME NEW n \in Nat, NEW s \in Nat \ {0}
  PROVE  (n + 1) % s = IF n % s = s - 1 THEN 0 ELSE (n % s) + 1
<1> DEFINE a == n \div s
           q == n % s
           b == (n + 1) \div s
           r == (n + 1) % s
<1>1. a \in Nat /\ q \in 0..(s - 1) /\ n = s * a + q
  BY Division
<1>2. b \in Nat /\ r \in 0..(s - 1) /\ n + 1 = s * b + r
  <2>1. n + 1 \in Nat
    OBVIOUS
  <2> QED
    BY <2>1, Division
<1> HIDE DEF a, q, b, r
<1>3. s * a \in Int /\ s * b \in Int
  BY <1>1, <1>2
<1>4. CASE q = s - 1
  <2>1. s * (a + 1) + 0 = s * b + r
    BY <1>1, <1>2, <1>3, <1>4
  <2>2. 0 \in 0..(s - 1) /\ a + 1 \in Nat
    BY <1>1
  <2> HIDE <1>4
  <2>3. 0 = r
    BY <1>2, <2>1, <2>2, RemainderUnique
  <2> QED
    BY <1>4, <2>3 DEF q, r
<1>5. CASE q # s - 1
  <2>1. s * a + (q + 1) = s * b + r /\ q + 1 \in 0..(s - 1)
    BY <1>1, <1>2, <1>3, <1>5
  <2>2. q + 1 = r
    <3>1. \A k \in 0..(s - 1) : s * a + k = s * b + r => k = r
      BY <1>1, <1>2, RemainderUnique
    <3> QED
      BY <2>1, <3>1
  <2> QED
    BY <1>5, <2>2 DEF q, r
<1> QED
  BY <1>4, <1>5

\* The failures since the last multiple of the setting.
Past == failStreak % setting

\* Failures that went unheard reach over at most one multiple of the setting: a beep was
\* owed there and not given, so that it is the one of the last beep.
Hearing ==
  running =>
    /\ setting = failNeed
    /\ unheard <= setting + Past
    /\ unheard > Past => lastAlertAt = failStreak - Past

LEMMA HearingStays ==
  ASSUME ~Adjustable, TypeOK, Red, Hearing, [Next]_vars
  PROVE  Hearing'
<1>1. /\ setting \in Nat \ {0} /\ failStreak \in Nat /\ unheard \in Nat /\ failNeed \in Nat \ {0}
      /\ lastAlertAt \in Nat /\ running \in BOOLEAN
  BY BannerAssumption DEF TypeOK
<1>2. Past \in 0..(setting - 1) /\ 0 % setting = 0
  BY <1>1, Division DEF Past
<1>3. CASE Fail
  <2>1. /\ running /\ running' = running /\ setting' = setting /\ failNeed' = failNeed
        /\ setting = failNeed
    BY <1>3 DEF Fail, Hearing
  <2>2. failStreak' = failStreak + 1
    BY <1>3 DEF Fail, UpdateFail
  <2>3. Past' = IF Past = setting - 1 THEN 0 ELSE Past + 1
    BY <1>1, <2>1, <2>2, NextRemainder DEF Past
  <2>4. CASE Alerts
    <3>1. lastAlertAt' = failStreak' /\ unheard' = 0 /\ failStreak' % setting = 0
      BY <1>3, <2>4 DEF Fail, Beeps, Alerts
    <3> QED
      BY <1>1, <1>2, <2>1, <2>2, <2>3, <3>1 DEF Hearing
  <2>5. CASE ~Alerts
    <3>1. lastAlertAt' = lastAlertAt /\ unheard' = unheard + 1
      BY <1>3, <2>5 DEF Fail, Beeps
    <3>2. CASE Past = setting - 1
      <4>1. Past' = 0 /\ failStreak' % setting = 0
        BY <2>1, <2>3, <3>2 DEF Past
      <4>2. failStreak' >= setting
        <5>1. failStreak \in Nat /\ Past <= failStreak
          BY <1>1, Division, ProductAtLeast DEF Past
        <5> QED
          BY <1>1, <2>2, <3>2, <5>1
      <4>3. shown' = "Fail"
        BY <1>1, <1>3, <2>1, <2>2, <4>2 DEF Fail, UpdateFail
      <4>4. lastAlertAt = failStreak'
        BY <2>5, <4>1, <4>2, <4>3 DEF Alerts
      <4>5. unheard <= Past
        BY <1>1, <1>2, <2>1, <2>2, <4>4 DEF Hearing
      <4> QED
        BY <1>1, <2>1, <2>2, <3>1, <3>2, <4>1, <4>4, <4>5 DEF Hearing
    <3>3. CASE Past # setting - 1
      BY <1>1, <1>2, <2>1, <2>2, <2>3, <3>1, <3>3 DEF Hearing
    <3> QED
      BY <3>2, <3>3
  <2> QED
    BY <2>4, <2>5
<1>4. CASE Warn \/ Ok \/ StartSession
  <2>1. unheard' = 0 /\ setting' = setting
    BY <1>4 DEF Warn, Ok, StartSession
  <2>2. running' => setting' = failNeed'
    BY <1>4, <2>1 DEF Warn, Ok, StartSession, Hearing
  <2>3. failStreak' \in Nat
    BY <1>1, <1>4 DEF Warn, UpdateWarn, Ok, UpdateOk, StartSession
  <2>4. Past' \in 0..(setting - 1)
    BY <1>1, <2>1, <2>3, Division DEF Past
  <2> QED
    BY <1>1, <2>1, <2>2, <2>4 DEF Hearing
<1>5. CASE StopSession \/ ChangeSetting
  BY <1>5 DEF StopSession, ChangeSetting, Hearing
<1>6. CASE UNCHANGED vars
  BY <1>6 DEF vars, hystVars, seenVars, Hearing, Past
<1> QED
  BY <1>3, <1>4, <1>5, <1>6 DEF Next

\* A boost that keeps failing is heard within twice the setting, whatever warnings and Oks
\* came in the session and however often it beeped: maybeAlertFail may leave out one
\* multiple, that of its last beep.  The setting is that of the session's start, as in ECU
\* Drive; the banner of ECU Studio does not follow a change (see Adjustable).
THEOREM FailuresAreHeard == ASSUME ~Adjustable PROVE Spec => []Heard
<1>1. Init => Red /\ Hearing
  BY DEF Init, Red, Hearing
<1>2. TypeOK /\ Hearing => Heard
  <2> SUFFICES ASSUME TypeOK, Hearing, running PROVE unheard < 2 * setting
    BY DEF Heard
  <2>1. setting \in Nat \ {0} /\ failStreak \in Nat /\ unheard \in Nat
    BY BannerAssumption DEF TypeOK
  <2>2. Past \in 0..(setting - 1)
    BY <2>1, Division DEF Past
  <2> QED
    BY <2>1, <2>2 DEF Hearing
<1>3. TypeOK /\ Red /\ Hearing /\ [Next]_vars => Hearing'
  BY HearingStays
<1> QED
  BY <1>1, <1>2, <1>3, RedStays, BannerTyped, PTL DEF Spec

-----------------------------------------------------------------------------
(***************************************************************************)
(* The measures on the CAN bus.  A run cannot leave anything to the next one *)
(* because nothing is connected between runs, whatever timers of earlier runs *)
(* are armed: `BetweenRuns`.                                               *)
(***************************************************************************)

OfThisRun(s) == \A i \in 1..Len(s) : s[i].run = runNo

\* Between runs nothing is asked and no socket is on its way to the server.
BetweenRuns == ~busRunning => socket \in {"none", "idle"} /\ asked = <<>> /\ lines = <<>>

BusInv ==
  /\ BusTypeOK /\ BetweenRuns /\ (busRunning => runNo # 0)
  /\ OfThisRun(asked) /\ OfThisRun(lines) /\ OfThisRun(batch)

Knocks == [{"first", "again"} -> 0..MaxKnocks]

-----------------------------------------------------------------------------
(* What the helpers of the slots leave. *)

LEMMA AppendOfThisRun ==
  ASSUME NEW s \in Seq(Answer), OfThisRun(s), NEW a \in Answer, a.run = runNo
  PROVE  OfThisRun(Append(s, a)) /\ Append(s, a) \in Seq(Answer)
BY DEF OfThisRun

LEMMA TailOfThisRun ==
  ASSUME NEW s \in Seq(Answer), s # <<>>, OfThisRun(s)
  PROVE  /\ OfThisRun(Tail(s)) /\ Tail(s) \in Seq(Answer)
         /\ Head(s) \in Answer /\ Head(s).run = runNo
BY DEF OfThisRun

\* stopVerification and stopMonitoring leave nothing asked and nothing connected.
LEMMA StopRunEnds ==
  ASSUME BusInv, NEW shownVerdict \in {"none", "success", "failure"}, NEW k \in Knocks,
         StopRun(shownVerdict, k)
  PROVE  /\ ~busRunning' /\ ~polling' /\ ~overall'
         /\ {busRunning', polling', overall'} \subseteq BOOLEAN
         /\ proc' = "none" /\ socket' \in {"none", "idle"}
         /\ asked' = <<>> /\ lines' = <<>> /\ knocks' \in Knocks
         /\ outcome' \in {"none", "success", "failure"} /\ UNCHANGED <<initialized, runNo>>
<1>1. PICK starts \in {FALSE, proc = "starting" /\ ~Verifying} :
        /\ starts => k["first"] < MaxKnocks
        /\ socket' = IF starts THEN "idle" ELSE "none"
        /\ knocks' = IF starts THEN [k EXCEPT !["first"] = @ + 1] ELSE k
  BY DEF StopRun
<1>2. knocks' \in Knocks
  BY <1>1, BusAssumption DEF Knocks
<1> QED  BY <1>1, <1>2 DEF StopRun

\* Whatever state a stop leaves satisfies the invariant, batch apart.
LEMMA StopRunKeeps ==
  ASSUME BusInv, NEW shownVerdict \in {"none", "success", "failure"}, NEW k \in Knocks,
         StopRun(shownVerdict, k), tool' = tool,
         batch' \in Seq(Answer), OfThisRun(batch')
  PROVE  BusInv'
<1>1. /\ ~busRunning' /\ ~polling' /\ ~overall'
      /\ {busRunning', polling', overall'} \subseteq BOOLEAN
      /\ proc' = "none" /\ socket' \in {"none", "idle"}
      /\ asked' = <<>> /\ lines' = <<>> /\ knocks' \in Knocks
      /\ outcome' \in {"none", "success", "failure"} /\ UNCHANGED <<initialized, runNo>>
  BY StopRunEnds
<1>2. <<>> \in Seq(Answer) /\ Len(<<>>) = 0
  OBVIOUS
<1>3. BusTypeOK'
  BY <1>1, <1>2 DEF BusInv, BusTypeOK, Knocks
<1>4. OfThisRun(asked)' /\ OfThisRun(lines)' /\ OfThisRun(batch)'
  BY <1>1, <1>2 DEF OfThisRun
<1> QED  BY <1>1, <1>3, <1>4 DEF BusInv, BetweenRuns

\* A slot that does not stop the run.
LEMMA UnstoppedKeeps ==
  ASSUME BusInv, Unstopped, tool' = tool, busRunning \/ UNCHANGED <<asked, lines>>,
         socket' \in {"none", "idle", "connecting", "connected"},
         busRunning \/ socket' = socket, knocks' \in Knocks,
         asked' \in Seq(Answer), OfThisRun(asked'), lines' \in Seq(Answer), OfThisRun(lines'),
         batch' \in Seq(Answer), OfThisRun(batch')
  PROVE  BusInv'
<1>1. BusTypeOK'
  BY DEF BusInv, BusTypeOK, Unstopped, Knocks
<1>2. OfThisRun(asked)' /\ OfThisRun(lines)' /\ OfThisRun(batch)'
  BY DEF OfThisRun, Unstopped
<1>3. BetweenRuns'
  BY DEF BusInv, BetweenRuns, Unstopped
<1> QED  BY <1>1, <1>2, <1>3 DEF BusInv, Unstopped

\* A request is the run's own; between runs it goes nowhere.
LEMMA AskKeeps ==
  ASSUME BusInv, NEW kind \in {"initialize", "can_monitor"}, NEW now, Ask(kind, now),
         now = "connected" => busRunning
  PROVE  asked' \in Seq(Answer) /\ OfThisRun(asked') /\ (busRunning \/ asked' = asked)
<1> DEFINE a == [kind |-> kind, run |-> runNo]
<1>1. busRunning => a \in Answer /\ a.run = runNo
  BY DEF Answer, BusInv, BusTypeOK
<1>2. asked \in Seq(Answer) /\ OfThisRun(asked)
  BY DEF BusInv, BusTypeOK
<1>3. busRunning => OfThisRun(Append(asked, a)) /\ Append(asked, a) \in Seq(Answer)
  BY <1>1, <1>2, AppendOfThisRun
<1> QED  BY <1>2, <1>3 DEF Ask

-----------------------------------------------------------------------------
(* Each slot. *)

LEMMA SocketErrorKeeps ==
  ASSUME BusInv, NEW now, NEW k \in Knocks, busRunning,
         NEW after \in {"idle", "connecting", "connected"},
         OnSocketError(now, after, k), UNCHANGED <<tool, batch>>
  PROVE  BusInv'
<1>1. batch' \in Seq(Answer) /\ OfThisRun(batch')
  BY DEF BusInv, BusTypeOK, OfThisRun
<1>2. CASE initialized \/ (Verifying /\ now = "connected")
  <2>1. StopRun("failure", k)
    BY <1>2 DEF OnSocketError
  <2> QED  BY <1>1, <2>1, StopRunKeeps
<1>3. CASE ~(initialized \/ (Verifying /\ now = "connected"))
  <2>1. /\ Unstopped /\ socket' = after
        /\ k["again"] < MaxKnocks /\ knocks' = [k EXCEPT !["again"] = @ + 1]
        /\ (asked' = <<>> /\ lines' = <<>>) \/ UNCHANGED <<asked, lines>>
    BY <1>3 DEF OnSocketError
  <2>2. knocks' \in Knocks
    BY <2>1, BusAssumption DEF Knocks
  <2>3. asked' \in Seq(Answer) /\ OfThisRun(asked') /\ lines' \in Seq(Answer) /\ OfThisRun(lines')
    <3>1. \A r : r = <<>> => r \in Seq(Answer) /\ OfThisRun(r)
      BY DEF OfThisRun
    <3> QED  BY <2>1, <3>1 DEF BusInv, BusTypeOK
  <2> QED  BY <1>1, <2>1, <2>2, <2>3, UnstoppedKeeps
<1> QED  BY <1>2, <1>3

LEMMA StartKeeps ==
  ASSUME BusInv, Start, overall' \in BOOLEAN
  PROVE  BusInv'
<1>1. /\ busRunning' /\ proc' = "starting" /\ outcome' = "none"
      /\ runNo' = 1 + (runNo % MaxRunNo) /\ {busRunning', initialized'} \subseteq BOOLEAN
      /\ UNCHANGED <<tool, polling, socket, knocks, asked, lines, batch>>
  BY DEF Start, traffic
<1>2. runNo' \in 1..MaxRunNo
  BY <1>1, BusAssumption DEF BusInv, BusTypeOK
<1>3. asked = <<>> /\ lines = <<>> /\ batch = <<>>
  BY DEF BusInv, BetweenRuns, Start, Free
<1>4. OfThisRun(asked)' /\ OfThisRun(lines)' /\ OfThisRun(batch)'
  BY <1>1, <1>3 DEF OfThisRun
<1>5. BusTypeOK'
  BY <1>1, <1>2 DEF BusInv, BusTypeOK
<1> QED  BY <1>1, <1>2, <1>4, <1>5 DEF BusInv, BetweenRuns

LEMMA HandleKeeps ==
  ASSUME BusInv, HandleResponse
  PROVE  BusInv'
<1>0. batch # <<>> /\ tool' = tool /\ batch' = Tail(batch)
  BY DEF HandleResponse, Free
<1>1. /\ batch' \in Seq(Answer) /\ OfThisRun(batch')
      /\ asked \in Seq(Answer) /\ OfThisRun(asked) /\ lines \in Seq(Answer) /\ OfThisRun(lines)
      /\ knocks \in Knocks
  BY <1>0, TailOfThisRun DEF BusInv, BusTypeOK, Knocks
<1>2. ASSUME NEW v \in {"success", "failure"}, StopRun(v, knocks) PROVE BusInv'
  BY <1>0, <1>1, <1>2, StopRunKeeps
<1>3. CASE HandleInitialize
  <2>1. /\ initialized' = TRUE /\ polling' = TRUE /\ Ask("can_monitor", socket)
        /\ UNCHANGED <<busRunning, overall, proc, socket, knocks, lines, runNo, outcome>>
    BY <1>3 DEF HandleInitialize
  <2>2. socket = "connected" => busRunning
    BY DEF BusInv, BetweenRuns
  <2>3. asked' \in Seq(Answer) /\ OfThisRun(asked') /\ (busRunning \/ asked' = asked)
    BY <2>1, <2>2, AskKeeps
  <2>4. BusTypeOK'
    BY <1>0, <1>1, <2>1, <2>3 DEF BusInv, BusTypeOK
  <2>5. OfThisRun(asked)' /\ OfThisRun(lines)' /\ OfThisRun(batch)'
    BY <1>1, <2>1, <2>3 DEF OfThisRun
  <2> QED  BY <2>1, <2>3, <2>4, <2>5 DEF BusInv, BetweenRuns
<1>4. CASE HandleSample
  <2>1. CASE StopRun("success", knocks)
    BY <1>2, <2>1
  <2>2. CASE Unstopped /\ UNCHANGED <<socket, knocks, asked, lines>>
    BY <1>0, <1>1, <2>2, UnstoppedKeeps DEF BusInv, BusTypeOK
  <2> QED  BY <1>4, <2>1, <2>2 DEF HandleSample
<1>5. CASE HandleError
  BY <1>2, <1>5 DEF HandleError
<1> QED  BY <1>3, <1>4, <1>5 DEF HandleResponse

LEMMA StepKeeps == BusInv /\ [BusNext]_busVars => BusInv'
<1> SUFFICES ASSUME BusInv, [BusNext]_busVars PROVE BusInv'
  OBVIOUS
<1>0. /\ asked \in Seq(Answer) /\ OfThisRun(asked) /\ lines \in Seq(Answer) /\ OfThisRun(lines)
      /\ batch \in Seq(Answer) /\ OfThisRun(batch) /\ knocks \in Knocks
      /\ socket \in {"none", "idle", "connecting", "connected"}
  BY DEF BusInv, BusTypeOK, Knocks
<1>1. CASE StartVerification \/ StartMonitoring
  <2>1. Start /\ overall' \in BOOLEAN
    BY <1>1 DEF StartVerification, StartMonitoring, BusInv, BusTypeOK
  <2> QED  BY <2>1, StartKeeps
<1>2. CASE UserStops \/ OnProcErrorOccurred \/ OnProcFinished \/ OnOverallTimeout
  <2>1. StopRun("failure", knocks) /\ UNCHANGED <<tool, batch>>
    BY <1>2 DEF UserStops, OnProcErrorOccurred, OnProcFinished, OnOverallTimeout
  <2> QED  BY <1>0, <2>1, StopRunKeeps
<1>3. CASE OnProcStarted
  <2>1. /\ proc' = "up" /\ socket' = "idle" /\ knocks["first"] < MaxKnocks
        /\ knocks' = [knocks EXCEPT !["first"] = @ + 1]
        /\ UNCHANGED <<tool, busRunning, initialized, polling, overall, asked, lines, batch,
                       runNo, outcome>>
    BY <1>3 DEF OnProcStarted, traffic
  <2>2. knocks' \in Knocks
    BY <1>0, <2>1, BusAssumption DEF Knocks
  <2> QED  BY <2>1, <2>2 DEF BusInv, BusTypeOK, BetweenRuns, OfThisRun, Knocks
<1>4. CASE KnockFirst
  <2> DEFINE left == [knocks EXCEPT !["first"] = @ - 1]
  <2>1. knocks["first"] > 0 /\ UNCHANGED <<tool, batch>>
    BY <1>4 DEF KnockFirst
  <2>2. left \in Knocks
    BY <1>0, <2>1, BusAssumption DEF Knocks
  <2>3. CASE busRunning /\ socket \in {"connecting", "connected"}
    <3>1. OnSocketError(socket, socket, left)
      BY <1>4, <2>3 DEF KnockFirst
    <3> QED  BY <2>1, <2>2, <2>3, <3>1, SocketErrorKeeps
  <2>4. CASE ~(busRunning /\ socket \in {"connecting", "connected"})
    <3>1. /\ knocks' = left /\ Unstopped /\ UNCHANGED <<asked, lines>>
          /\ socket' = IF busRunning /\ socket = "idle" THEN "connecting" ELSE socket
      BY <1>4, <2>4 DEF KnockFirst
    <3> QED  BY <1>0, <2>1, <2>2, <3>1, UnstoppedKeeps
  <2> QED  BY <2>3, <2>4
<1>5. CASE KnockAgain
  <2>1. /\ knocks["again"] > 0 /\ knocks' = [knocks EXCEPT !["again"] = @ - 1]
        /\ Unstopped /\ UNCHANGED <<tool, asked, lines, batch>>
        /\ socket' = IF busRunning /\ socket = "idle" THEN "connecting" ELSE socket
    BY <1>5 DEF KnockAgain, traffic
  <2>2. knocks' \in Knocks
    BY <1>0, <2>1, BusAssumption DEF Knocks
  <2> QED  BY <1>0, <2>1, <2>2, UnstoppedKeeps
<1>6. CASE OnSocketConnected
  <2>1. /\ socket = "connecting" /\ socket' = "connected" /\ Ask("initialize", "connected")
        /\ Unstopped /\ UNCHANGED <<tool, knocks, lines, batch>>
    BY <1>6 DEF OnSocketConnected
  <2>2. busRunning
    BY <2>1 DEF BusInv, BetweenRuns
  <2>3. asked' \in Seq(Answer) /\ OfThisRun(asked')
    BY <2>1, <2>2, AskKeeps
  <2> QED  BY <1>0, <2>1, <2>2, <2>3, UnstoppedKeeps
<1>7. CASE ConnectionLost
  <2>1. /\ busRunning /\ OnSocketError(socket, "idle", knocks) /\ UNCHANGED <<tool, batch>>
    BY <1>7 DEF ConnectionLost
  <2> QED  BY <1>0, <2>1, SocketErrorKeeps
<1>8. CASE OnSocketReadyRead
  <2>1. /\ batch' = lines /\ lines' = <<>> /\ socket = "connected"
        /\ Unstopped /\ UNCHANGED <<tool, socket, knocks, asked>>
    BY <1>8 DEF OnSocketReadyRead
  <2>2. busRunning
    BY <2>1 DEF BusInv, BetweenRuns
  <2>3. lines' \in Seq(Answer) /\ OfThisRun(lines')
    BY <2>1 DEF OfThisRun
  <2> QED  BY <1>0, <2>1, <2>2, <2>3, UnstoppedKeeps
<1>9. CASE HandleResponse
  BY <1>9, HandleKeeps
<1>10. CASE OnPollTick
  <2>1. /\ busRunning /\ Ask("can_monitor", socket)
        /\ Unstopped /\ UNCHANGED <<tool, socket, knocks, lines, batch>>
    BY <1>10 DEF OnPollTick
  <2>2. asked' \in Seq(Answer) /\ OfThisRun(asked')
    BY <2>1, AskKeeps
  <2> QED  BY <1>0, <2>1, <2>2, UnstoppedKeeps
<1>11. CASE ServerAnswers
  <2>1. /\ socket = "connected" /\ asked # <<>>
        /\ lines' = Append(lines, Head(asked)) /\ asked' = Tail(asked)
        /\ Unstopped /\ UNCHANGED <<tool, socket, knocks, batch>>
    BY <1>11 DEF ServerAnswers
  <2>2. busRunning
    BY <2>1 DEF BusInv, BetweenRuns
  <2>3. /\ OfThisRun(asked') /\ asked' \in Seq(Answer)
        /\ Head(asked) \in Answer /\ Head(asked).run = runNo
    BY <1>0, <2>1, TailOfThisRun
  <2>4. OfThisRun(lines') /\ lines' \in Seq(Answer)
    BY <1>0, <2>1, <2>3, AppendOfThisRun
  <2> QED  BY <1>0, <2>1, <2>2, <2>3, <2>4, UnstoppedKeeps
<1>12. CASE UNCHANGED busVars
  BY <1>12 DEF busVars, BusInv, BusTypeOK, BetweenRuns, OfThisRun
<1> QED
  BY <1>1, <1>2, <1>3, <1>4, <1>5, <1>6, <1>7, <1>8, <1>9, <1>10, <1>11, <1>12 DEF BusNext

-----------------------------------------------------------------------------
(* The theorems. *)

LEMMA BusInductive == BusSpec => []BusInv
<1>1. BusInit => BusInv
  <2> SUFFICES ASSUME BusInit PROVE BusInv
    OBVIOUS
  <2>1. knocks \in Knocks
    BY BusAssumption DEF BusInit, Knocks
  <2>2. asked \in Seq(Answer) /\ lines \in Seq(Answer) /\ batch \in Seq(Answer)
    BY DEF BusInit
  <2>3. OfThisRun(asked) /\ OfThisRun(lines) /\ OfThisRun(batch)
    BY DEF BusInit, OfThisRun
  <2>4. runNo \in 0..MaxRunNo
    BY BusAssumption DEF BusInit
  <2> QED  BY <2>1, <2>2, <2>3, <2>4 DEF BusInit, BusInv, BusTypeOK, BetweenRuns, Knocks
<1> QED  BY <1>1, StepKeeps, PTL DEF BusSpec

\* The verification dialog and the validator keep their types: a slot of the subprocess,
\* the socket or a timer never leaves a request, an answer or a run that there is not.
THEOREM BusTyped == BusSpec => []BusTypeOK
<1>1. BusInv => BusTypeOK
  BY DEF BusInv
<1> QED  BY BusInductive, <1>1, PTL

\* handleResponse never handles an answer that was asked by a run before the last one
\* started, whatever processes, sockets and timers the runs before have left.
THEOREM AnswersStayInRun == BusSpec => []AnswersAreOfThisRun
<1>1. BusInv => AnswersAreOfThisRun
  BY DEF BusInv, OfThisRun, AnswersAreOfThisRun
<1> QED  BY BusInductive, <1>1, PTL

-----------------------------------------------------------------------------
(***************************************************************************)
(* The MPPS programmer.  TornIsTold speaks of the ECU after the commands   *)
(* still in the dongle's endpoint.  `Decided` says it without a choice: the *)
(* last command that writes the block has the ROM, or none does and the block *)
(* has it, or refused it.  That is kept by everything the dongle does, and by every command *)
(* that does not write the block.                                          *)
(***************************************************************************)

Order == [writes : BOOLEAN, block : 1..Blocks, rom : Nat]

IsWrite(w, i, b) == w[i].writes /\ w[i].block = b

Decided(w, a, f, u, b, r) ==
  \/ \E i \in (a + 1)..Len(w) :
       /\ IsWrite(w, i, b) /\ w[i].rom = r
       /\ \A j \in (i + 1)..Len(w) : ~IsWrite(w, j, b)
  \/ (f[b] = r \/ b \in u) /\ \A j \in (a + 1)..Len(w) : ~IsWrite(w, j, b)

\* The block will have the ROM being written, or the last one that was.
Holds(b) == Decided(wire, answered, flash, refused, b, rom)
Done == \A b \in 1..Blocks : Holds(b)

\* The worker has the device to itself, and its signals come after it.
Alone ==
  /\ WorkerAlone
  /\ step \in {"enter", "block", "exit"} => job # "none"
  /\ checklist => job = "none" /\ step = "none" /\ ~operating /\ device = "connected"
  /\ posted # <<>> => job = "none" /\ operating /\ step = "none"
  /\ posted \in {<<>>, <<"finished">>, <<"read", "finished">>}

\* What the writing has achieved so far, and what the panel may therefore say.
Progress ==
  /\ job = "write" /\ step = "enter" => ~failed
  /\ job = "write" /\ step = "block" =>
       /\ ~failed /\ \A b \in 1..Blocks : b < next => Holds(b)
       /\ awaiting => Holds(next)
  /\ job = "write" /\ step = "exit" /\ ~failed => Done
  /\ job # "write" /\ verdict = "written" => Done

-----------------------------------------------------------------------------
(* What is decided stays so. *)

LEMMA SendKeeps ==
  ASSUME NEW w \in Seq(Order), NEW a \in 0..Len(w), NEW f, NEW u, NEW b, NEW r,
         NEW c \in Order, Decided(w, a, f, u, b, r), ~(c.writes /\ c.block = b)
  PROVE  Decided(Append(w, c), a, f, u, b, r)
<1> DEFINE v == Append(w, c)
<1>1. Len(v) = Len(w) + 1 /\ v[Len(w) + 1] = c /\ \A i \in 1..Len(w) : v[i] = w[i]
  OBVIOUS
<1>2. \A i \in 1..Len(v) : IsWrite(v, i, b) <=> i \in 1..Len(w) /\ IsWrite(w, i, b)
  BY <1>1 DEF IsWrite
<1> QED  BY <1>1, <1>2 DEF Decided

LEMMA SendDecides ==
  ASSUME NEW w \in Seq(Order), NEW a \in 0..Len(w), NEW f, NEW u, NEW c \in Order, c.writes
  PROVE  Decided(Append(w, c), a, f, u, c.block, c.rom)
<1> DEFINE v == Append(w, c)
<1>1. Len(v) = Len(w) + 1 /\ v[Len(w) + 1] = c
  OBVIOUS
<1>2. Len(v) \in (a + 1)..Len(v) /\ \A j \in (Len(v) + 1)..Len(v) : FALSE
  BY <1>1
<1> QED  BY <1>1, <1>2 DEF Decided, IsWrite

\* The command is carried out or refused.
Answers(c, f, g, u, v) ==
  \/ ~c.writes /\ g = f /\ v = u
  \/ c.writes /\ g = [f EXCEPT ![c.block] = c.rom] /\ v = u \ {c.block}
  \/ c.writes /\ g = f /\ v = u \cup {c.block}

LEMMA AnswerKeeps ==
  ASSUME NEW w \in Seq(Order), NEW a \in 0..Len(w), NEW f \in [1..Blocks -> Nat], NEW u,
         NEW b \in 1..Blocks, NEW r, Decided(w, a, f, u, b, r), a < Len(w),
         NEW g, NEW v, Answers(w[a + 1], f, g, u, v)
  PROVE  Decided(w, a + 1, g, v, b, r)
<1>1. w[a + 1] \in Order
  OBVIOUS
<1>2. CASE IsWrite(w, a + 1, b)
  <2>1. g[b] = w[a + 1].rom \/ b \in v
    BY <1>1, <1>2 DEF IsWrite, Order, Answers
  <2>2. PICK i \in (a + 1)..Len(w) :
          /\ IsWrite(w, i, b) /\ w[i].rom = r
          /\ \A j \in (i + 1)..Len(w) : ~IsWrite(w, j, b)
    BY <1>2 DEF Decided
  <2> QED  BY <2>1, <2>2 DEF Decided
<1>3. CASE ~IsWrite(w, a + 1, b)
  <2>1. g[b] = f[b] /\ (b \in v <=> b \in u)
    BY <1>1, <1>3 DEF IsWrite, Order, Answers
  <2> QED  BY <2>1, <1>3 DEF Decided
<1> QED  BY <1>2, <1>3

LEMMA ReceiveKeeps ==
  ASSUME NEW w \in Seq(Order), NEW a \in 1..Len(w), NEW f, NEW u, NEW b, NEW r,
         Decided(w, a, f, u, b, r)
  PROVE  Decided(Tail(w), a - 1, f, u, b, r)
<1> DEFINE v == Tail(w)
<1>1. Len(v) = Len(w) - 1 /\ \A i \in 1..Len(v) : v[i] = w[i + 1]
  OBVIOUS
<1>2. \A i \in 1..Len(v) : IsWrite(v, i, b) <=> IsWrite(w, i + 1, b)
  BY <1>1 DEF IsWrite
<1>3. CASE (f[b] = r \/ b \in u) /\ \A j \in (a + 1)..Len(w) : ~IsWrite(w, j, b)
  BY <1>1, <1>2, <1>3 DEF Decided
<1>4. ASSUME NEW i \in (a + 1)..Len(w), IsWrite(w, i, b), w[i].rom = r,
             \A j \in (i + 1)..Len(w) : ~IsWrite(w, j, b)
      PROVE  Decided(v, a - 1, f, u, b, r)
  <2>1. i - 1 \in (a - 1 + 1)..Len(v) /\ IsWrite(v, i - 1, b) /\ v[i - 1].rom = r
    <3>1. Len(w) \in Nat /\ a \in Nat /\ a >= 1 /\ i \in Nat /\ i >= a + 1 /\ i <= Len(w)
      OBVIOUS
    <3>2. i - 1 \in (a - 1 + 1)..Len(v) /\ i - 1 \in 1..Len(v) /\ (i - 1) + 1 = i
      BY <1>1, <3>1
    <3>3. IsWrite(v, i - 1, b) <=> IsWrite(w, i, b)
      BY <1>2, <3>2
    <3>4. v[i - 1] = w[i]
      BY <1>1, <3>2
    <3> QED
      BY <1>4, <3>2, <3>3, <3>4
  <2>2. \A j \in (i - 1 + 1)..Len(v) : ~IsWrite(v, j, b)
    BY <1>1, <1>2, <1>4
  <2> QED  BY <2>1, <2>2 DEF Decided
<1> QED  BY <1>3, <1>4 DEF Decided

\* A block that is decided and was not refused settles on that ROM.
LEMMA DecidedSettles ==
  ASSUME MppsTypeOK, NEW b \in (1..Blocks) \ refused, Holds(b)
  PROVE  Settles(b) = rom
<1> DEFINE writes == {i \in (answered + 1)..Len(wire) : wire[i].writes /\ wire[i].block = b}
<1>1. CASE writes = {}
  BY <1>1 DEF Settles, Holds, Decided, IsWrite
<1>2. CASE writes # {}
  <2>1. PICK i \in writes : wire[i].rom = rom /\ \A j \in (i + 1)..Len(wire) : ~IsWrite(wire, j, b)
    BY <1>2 DEF Holds, Decided, IsWrite
  <2>2. \A j \in writes : j <= i
    <3>1. answered \in Nat /\ Len(wire) \in Nat
      BY DEF MppsTypeOK
    <3>2. \A j \in writes : ~(j \in (i + 1)..Len(wire))
      BY <2>1 DEF IsWrite
    <3>3. \A j \in writes : j \in Int /\ j <= Len(wire)
      BY <3>1
    <3> HIDE DEF writes
    <3> QED
      BY <3>2, <3>3
  <2>3. \A k \in writes : k \in Int
    BY DEF MppsTypeOK
  <2>4. \A k \in writes : (\A j \in writes : j <= k) => k = i
    <3> HIDE DEF writes
    <3> QED  BY <2>1, <2>2, <2>3
  <2>5. (CHOOSE k \in writes : \A j \in writes : j <= k) = i
    <3> HIDE DEF writes
    <3> QED  BY <2>2, <2>4
  <2> QED  BY <1>2, <2>1, <2>5 DEF Settles
<1> QED  BY <1>1, <1>2

-----------------------------------------------------------------------------
(* Types. *)

Strings == {"read", "finished"}

LEMMA ReportType ==
  ASSUME MppsTypeOK, Report
  PROVE  posted' \in Seq(Strings) /\ step' \in Steps /\ job' \in {"none", "read", "write"}
         /\ awaiting' \in BOOLEAN /\ verdict' \in {"written", "failed"}
         /\ UNCHANGED <<panelState, next>>
<1>1. posted' \in {<<"read", "finished">>, <<"finished">>}
  BY DEF Report
<1>2. <<"read", "finished">> \in Seq(Strings) /\ <<"finished">> \in Seq(Strings)
  BY DEF Strings
<1>3. posted' \in Seq(Strings)
  BY <1>1, <1>2
<1> QED  BY <1>3 DEF Report, Steps, MppsTypeOK

\* The dongle's side apart, a call that ends keeps the types.
LEMMA CallEndsType ==
  ASSUME MppsTypeOK, NEW ok \in BOOLEAN, CallEnds(ok)
  PROVE  /\ device' \in {"none", "opening", "connected"} /\ leaked' \in BOOLEAN
         /\ operating' \in BOOLEAN /\ checklist' \in BOOLEAN
         /\ job' \in {"none", "read", "write"} /\ step' \in Steps
         /\ next' \in 1..Blocks /\ awaiting' \in BOOLEAN /\ failed' \in BOOLEAN
         /\ rom' = rom /\ posted' \in Seq(Strings) /\ verdict' \in {"written", "failed"}
<1> USE MppsAssumption DEF MppsTypeOK, Steps, Strings, panelState, toldState
<1>1. CASE HandshakeEnds(ok)
  BY <1>1 DEF HandshakeEnds
<1>2. CASE IdentEnds
  BY <1>2 DEF IdentEnds
<1>3. CASE AbortEnds
  BY <1>3 DEF AbortEnds
<1>4. CASE EnterEnds(ok)
  <2>1. CASE ok
    <3>1. /\ step' = "block" /\ next' = 1 /\ awaiting' = FALSE
          /\ UNCHANGED <<panelState, job, failed, toldState>>
      BY <1>4, <2>1 DEF EnterEnds
    <3>2. 1 \in 1..Blocks
      OBVIOUS
    <3> QED  BY <3>1, <3>2
  <2>2. CASE ~ok
    <3>1. Report /\ failed' = TRUE
      BY <1>4, <2>2 DEF EnterEnds
    <3>2. UNCHANGED <<device, leaked, operating, checklist, rom, next>>
      BY <3>1, ReportType
    <3>3. posted' \in Seq(Strings) /\ step' \in Steps /\ job' \in {"none", "read", "write"}
          /\ awaiting' \in BOOLEAN /\ verdict' \in {"written", "failed"}
      BY <3>1, ReportType
    <3> QED  BY <3>1, <3>2, <3>3
  <2> QED  BY <2>1, <2>2
<1>5. CASE BlockEnds(ok)
  <2>1. failed' \in BOOLEAN /\ awaiting' \in BOOLEAN
    BY <1>5, Zenon DEF BlockEnds
  <2>2. next' \in 1..Blocks /\ step' \in {"block", "exit"}
    BY <1>5 DEF BlockEnds
  <2> QED  BY <1>5, <2>1, <2>2 DEF BlockEnds
<1>6. CASE ExitEnds
  BY <1>6, ReportType DEF ExitEnds
<1> QED  BY <1>1, <1>2, <1>3, <1>4, <1>5, <1>6 DEF CallEnds

LEMMA InitTyped == MppsInit => MppsTypeOK
<1> SUFFICES ASSUME MppsInit PROVE MppsTypeOK
  OBVIOUS
<1>1. 1 \in 1..Blocks /\ 0 \in 0..Len(wire)
  BY MppsAssumption DEF MppsInit
<1>2. flash \in [1..Blocks -> Nat]
  BY DEF MppsInit
<1>3. wire \in Seq(Order) /\ posted \in Seq(Strings)
  BY DEF MppsInit
<1> QED  BY <1>1, <1>2, <1>3 DEF MppsInit, MppsTypeOK, Steps, Order, Strings

LEMMA CommandType == ASSUME MppsTypeOK PROVE Command \in Order
BY MppsAssumption DEF MppsTypeOK, Command, Order

LEMMA StepTyped == MppsTypeOK /\ [MppsNext]_mppsVars => MppsTypeOK'
<1> SUFFICES ASSUME MppsTypeOK, [MppsNext]_mppsVars PROVE MppsTypeOK'
  OBVIOUS
<1>1. CASE SendCommand
  <2>1. wire' \in Seq(Order) /\ Len(wire') = Len(wire) + 1
    BY <1>1, CommandType DEF SendCommand, MppsTypeOK, Order
  <2> QED  BY <1>1, <2>1 DEF SendCommand, MppsTypeOK, Order, panelState, toldState
<1>2. CASE SendFails
  BY <1>2, CallEndsType DEF SendFails, MppsTypeOK, Strings, dongleState
<1>3. CASE ReceiveAnswer
  <2>1. wire' \in Seq(Order) /\ Len(wire') = Len(wire) - 1 /\ answered' \in 0..Len(wire')
    BY <1>3 DEF ReceiveAnswer, MppsTypeOK, Order
  <2> QED  BY <1>3, <2>1, CallEndsType DEF ReceiveAnswer, MppsTypeOK, Strings, Order
<1>4. CASE ReceiveTimesOut
  BY <1>4, CallEndsType DEF ReceiveTimesOut, MppsTypeOK, Strings, dongleState
<1>5. CASE DongleAnswers
  <2>1. wire[answered + 1] \in Order
    <3>1. wire \in Seq(Order) /\ answered + 1 \in 1..Len(wire)
      BY <1>5 DEF DongleAnswers, MppsTypeOK, Order
    <3> QED  BY <3>1
  <2>2. flash' \in [1..Blocks -> Nat] /\ refused' \subseteq 1..Blocks
    BY <1>5, <2>1 DEF DongleAnswers, MppsTypeOK, Order
  <2> QED  BY <1>5, <2>2, SMTT(40) DEF DongleAnswers, MppsTypeOK, panelState, toldState
<1>6. CASE ConnectDevice
  BY <1>6 DEF ConnectDevice, MppsTypeOK, Steps, mppsVars, dongleState, toldState
<1>7. CASE DisconnectDevice
  BY <1>7 DEF DisconnectDevice, MppsTypeOK, Steps, panelState, dongleState, toldState
<1>8. CASE ReadRom
  BY <1>8 DEF ReadRom, StartJob, MppsTypeOK, Steps, dongleState, toldState
<1>9. CASE WriteRom
  BY <1>9 DEF WriteRom, MppsTypeOK, dongleState, toldState
<1>10. CASE AcceptChecklist
  <2>1. rom' \in Nat /\ UNCHANGED <<device, leaked, next, wire, answered, flash, refused, posted,
                                     verdict>>
    BY <1>10 DEF AcceptChecklist, MppsTypeOK, dongleState, toldState
  <2> QED  BY <1>10, <2>1 DEF AcceptChecklist, StartJob, MppsTypeOK, Steps
<1>11. CASE RejectChecklist
  BY <1>11 DEF RejectChecklist, MppsTypeOK, dongleState, toldState
<1>12. CASE HandlePosted
  <2>1. Head(posted) \in Strings /\ Tail(posted) \in Seq(Strings)
    BY <1>12 DEF HandlePosted, MppsTypeOK, Strings
  <2> QED  BY <1>12, <2>1 DEF HandlePosted, MppsTypeOK, Strings, dongleState
<1>13. CASE UNCHANGED mppsVars
  BY <1>13 DEF MppsTypeOK, mppsVars
<1> QED
  BY <1>1, <1>2, <1>3, <1>4, <1>5, <1>6, <1>7, <1>8, <1>9, <1>10, <1>11, <1>12, <1>13
     DEF MppsNext

-----------------------------------------------------------------------------
(* The worker alone, and what it has achieved. *)

LEMMA ReportAlone ==
  ASSUME MppsTypeOK, Alone, job # "none", Report
  PROVE  Alone'
<1>1. /\ job' = "none" /\ step' = "none" /\ UNCHANGED <<operating, checklist>>
      /\ operating /\ ~checklist
  BY DEF Report, panelState, Alone, WorkerAlone
<1>2. posted' \in {<<"read", "finished">>, <<"finished">>}
  BY DEF Report
<1> QED  BY <1>1, <1>2 DEF Alone, WorkerAlone

LEMMA CallEndsAlone ==
  ASSUME MppsTypeOK, Alone, NEW ok \in BOOLEAN, CallEnds(ok)
  PROVE  Alone'
<1>1. CASE HandshakeEnds(ok)
  BY <1>1 DEF HandshakeEnds, Alone, WorkerAlone, toldState
<1>2. CASE IdentEnds
  BY <1>2 DEF IdentEnds, Alone, WorkerAlone, toldState, panelState
<1>3. CASE AbortEnds
  BY <1>3 DEF AbortEnds, Alone, WorkerAlone, toldState
<1>4. CASE EnterEnds(ok)
  <2>1. CASE ok
    <3>1. step = "enter" /\ step' = "block" /\ UNCHANGED <<panelState, job, toldState>>
      BY <1>4, <2>1 DEF EnterEnds
    <3> QED  BY <3>1 DEF Alone, WorkerAlone, panelState, toldState
  <2>2. CASE ~ok
    <3>1. job # "none" /\ Report
      BY <1>4, <2>2 DEF EnterEnds, Alone
    <3> QED  BY <3>1, ReportAlone
  <2> QED  BY <2>1, <2>2
<1>5. CASE BlockEnds(ok)
  <2>1. step = "block" /\ step' \in {"block", "exit"} /\ UNCHANGED <<panelState, job, toldState>>
    BY <1>5 DEF BlockEnds
  <2> QED  BY <2>1 DEF Alone, WorkerAlone, panelState, toldState
<1>6. CASE ExitEnds
  <2>1. job # "none" /\ Report
    BY <1>6 DEF ExitEnds, Alone
  <2> QED  BY <2>1, ReportAlone
<1> QED  BY <1>1, <1>2, <1>3, <1>4, <1>5, <1>6 DEF CallEnds

LEMMA TwoPosted ==
  /\ Head(<<"read", "finished">>) = "read" /\ Tail(<<"read", "finished">>) = <<"finished">>
  /\ Tail(<<"finished">>) = <<>>
<1>1. Head(<<"read", "finished">>) = "read"
  OBVIOUS
<1>2. Tail(<<"read", "finished">>) = <<"finished">>
  OBVIOUS
<1>3. Tail(<<"finished">>) = <<>>
  OBVIOUS
<1> QED  BY <1>1, <1>2, <1>3

LEMMA StepAlone == MppsTypeOK /\ Alone /\ [MppsNext]_mppsVars => Alone'
<1> SUFFICES ASSUME MppsTypeOK, Alone, [MppsNext]_mppsVars PROVE Alone'
  OBVIOUS
<1>1. CASE SendCommand
  BY <1>1 DEF SendCommand, Alone, WorkerAlone, panelState, toldState
<1>2. CASE SendFails \/ ReceiveAnswer \/ ReceiveTimesOut
  BY <1>2, CallEndsAlone DEF SendFails, ReceiveAnswer, ReceiveTimesOut
<1>3. CASE DongleAnswers
  BY <1>3 DEF DongleAnswers, Alone, WorkerAlone, panelState, toldState
<1>4. CASE ConnectDevice
  BY <1>4 DEF ConnectDevice, Alone, WorkerAlone, MainFree, MppsTypeOK, Steps, mppsVars,
              toldState, dongleState
<1>5. CASE DisconnectDevice
  BY <1>5 DEF DisconnectDevice, Alone, WorkerAlone, MainFree, panelState, toldState
<1>6. CASE ReadRom
  BY <1>6 DEF ReadRom, StartJob, Alone, WorkerAlone, MainFree, toldState
<1>7. CASE WriteRom
  BY <1>7 DEF WriteRom, Alone, WorkerAlone, MainFree, toldState
<1>8. CASE AcceptChecklist
  BY <1>8 DEF AcceptChecklist, StartJob, Alone, WorkerAlone, toldState
<1>9. CASE RejectChecklist
  BY <1>9 DEF RejectChecklist, Alone, WorkerAlone, toldState
<1>10. CASE HandlePosted
  <2>1. job = "none" /\ step = "none" /\ operating /\ ~checklist
    BY <1>10 DEF HandlePosted, MainFree, Alone
  <2>2. CASE posted = <<"finished">>
    <3>1. posted' = <<>>
      BY <1>10, <2>2 DEF HandlePosted
    <3> QED  BY <1>10, <2>1, <3>1 DEF HandlePosted, Alone, WorkerAlone
  <2>3. CASE posted = <<"read", "finished">>
    <3>1. posted' = <<"finished">> /\ operating' = operating
      BY <1>10, <2>1, <2>3, TwoPosted DEF HandlePosted
    <3>2. /\ UNCHANGED <<device, leaked, checklist, job, step>>
          /\ posted' \in {<<"finished">>}
      BY <1>10, <3>1 DEF HandlePosted
    <3> QED  BY <2>1, <3>1, <3>2 DEF Alone, WorkerAlone
  <2>4. posted # <<>>
    BY <1>10 DEF HandlePosted
  <2> QED  BY <2>2, <2>3, <2>4 DEF Alone
<1>11. CASE UNCHANGED mppsVars
  BY <1>11 DEF Alone, WorkerAlone, mppsVars
<1> QED
  BY <1>1, <1>2, <1>3, <1>4, <1>5, <1>6, <1>7, <1>8, <1>9, <1>10, <1>11 DEF MppsNext

LEMMA ReportProgress ==
  ASSUME MppsTypeOK, job # "none", Report, rom' = rom, failed' \in BOOLEAN,
         \A b \in 1..Blocks : Holds(b) => Holds(b)',
         job = "write" /\ ~failed' => Done,
         job = "read" /\ verdict = "written" => Done
  PROVE  Progress'
<1>1. job' = "none" /\ step' = "none"
  BY DEF Report
<1>2. verdict' = IF job = "read" THEN verdict ELSE IF failed' THEN "failed" ELSE "written"
  BY DEF Report
<1>3. Done => Done'
  BY DEF Done
<1>4. job \in {"read", "write"}
  BY DEF MppsTypeOK
<1>5. verdict' = "written" => Done
  BY <1>2, <1>4
<1> QED  BY <1>1, <1>3, <1>5 DEF Progress

LEMMA CallEndsProgress ==
  ASSUME MppsTypeOK, Alone, Progress, NEW ok \in BOOLEAN, CallEnds(ok), ok => awaiting,
         \A b \in 1..Blocks : Holds(b) => Holds(b)'
  PROVE  Progress'
<1>1. rom' = rom /\ failed' \in BOOLEAN
  BY CallEndsType
<1>2. Done => Done'
  BY DEF Done
<1>3. job = "read" /\ verdict = "written" => Done
  BY DEF Progress
<1>4. CASE HandshakeEnds(ok) \/ IdentEnds \/ AbortEnds
  <2>1. job # "write" /\ UNCHANGED <<job, toldState>>
    BY <1>4 DEF HandshakeEnds, IdentEnds, AbortEnds, Alone, WorkerAlone
  <2> QED  BY <1>2, <2>1 DEF Progress, toldState
<1>5. CASE EnterEnds(ok)
  <2>1. CASE ok
    <3>1. step = "enter" /\ step' = "block" /\ next' = 1 /\ awaiting' = FALSE
          /\ UNCHANGED <<job, failed, posted, verdict>>
      BY <1>5, <2>1 DEF EnterEnds, toldState
    <3>2. \A b \in 1..Blocks : ~(b < 1)
      OBVIOUS
    <3> QED  BY <1>2, <3>1, <3>2 DEF Progress
  <2>2. CASE ~ok
    <3>1. job # "none" /\ Report /\ failed'
      BY <1>5, <2>2 DEF EnterEnds, Alone
    <3> QED  BY <1>1, <1>3, <3>1, ReportProgress
  <2> QED  BY <2>1, <2>2
<1>6. CASE BlockEnds(ok)
  <2>1. step = "block" /\ awaiting' = FALSE /\ UNCHANGED <<job, posted, verdict>>
    BY <1>6 DEF BlockEnds, toldState
  <2>2. CASE ok
    <3>1. failed' = FALSE
      BY <1>6, <2>2, Zenon DEF BlockEnds
    <3>2. job = "write" => \A b \in 1..Blocks : b <= next => Holds(b)'
      BY <2>1, <2>2 DEF Progress, MppsTypeOK
    <3>3. CASE next < Blocks
      <4>1. step' = "block" /\ next' = next + 1
        BY <1>6, <2>2, <3>3 DEF BlockEnds
      <4>2. job = "write" => \A b \in 1..Blocks : b < next' => Holds(b)'
        BY <3>2, <4>1 DEF MppsTypeOK
      <4> QED  BY <1>2, <2>1, <3>1, <4>1, <4>2 DEF Progress
    <3>4. CASE ~(next < Blocks)
      <4>1. step' = "exit"
        BY <1>6, <3>4 DEF BlockEnds
      <4>2. job = "write" => Done'
        BY MppsAssumption, <3>2, <3>4 DEF MppsTypeOK, Done
      <4>3. job # "write" /\ verdict = "written" => Done'
        BY <1>2 DEF Progress
      <4> QED  BY <2>1, <4>1, <4>2, <4>3 DEF Progress
    <3> QED  BY <3>3, <3>4
  <2>3. CASE ~ok
    <3>1. failed' = TRUE
      BY <1>6, <2>3, Zenon DEF BlockEnds
    <3>2. step' = "exit"
      BY <1>6, <2>3 DEF BlockEnds
    <3> QED  BY <1>2, <2>1, <3>1, <3>2 DEF Progress
  <2> QED  BY <2>2, <2>3
<1>7. CASE ExitEnds
  <2>1. job # "none" /\ Report /\ failed' = failed /\ step = "exit"
    BY <1>7 DEF ExitEnds, Alone
  <2>2. job = "write" /\ ~failed' => Done
    BY <2>1 DEF Progress
  <2> QED  BY <1>1, <1>3, <2>1, <2>2, ReportProgress
<1> QED  BY <1>4, <1>5, <1>6, <1>7 DEF CallEnds

LEMMA StepProgress == MppsTypeOK /\ Alone /\ Progress /\ [MppsNext]_mppsVars => Progress'
<1> SUFFICES ASSUME MppsTypeOK, Alone, Progress, [MppsNext]_mppsVars PROVE Progress'
  OBVIOUS
<1> DEFINE Kept == rom' = rom /\ \A b \in 1..Blocks : Holds(b) => Holds(b)'
<1>0. wire \in Seq(Order) /\ answered \in 0..Len(wire) /\ flash \in [1..Blocks -> Nat]
  BY DEF MppsTypeOK, Order
<1>1. Kept /\ UNCHANGED <<job, step, next, failed, awaiting, verdict>> => Progress'
  BY DEF Progress, Done, Holds, MppsTypeOK
<1>2. CASE SendCommand
  <2>1. /\ wire' = Append(wire, Command) /\ awaiting'
        /\ UNCHANGED <<answered, flash, refused, rom, job, step, next, failed, verdict>>
    BY <1>2 DEF SendCommand, panelState, toldState
  <2>2. CASE step = "block" /\ job = "write"
    <3>1. Command.writes /\ Command.block = next /\ Command.rom = rom
      BY <2>2 DEF Command
    <3>2. Holds(next)'
      BY <1>0, <2>1, <3>1, CommandType, SendDecides DEF Holds
    <3>3. \A b \in 1..Blocks : b < next /\ Holds(b) => Holds(b)'
      BY <1>0, <2>1, <3>1, CommandType, SendKeeps DEF Holds, MppsTypeOK
    <3>4. ~failed' /\ \A b \in 1..Blocks : b < next => Holds(b)'
      BY <2>1, <2>2, <3>3 DEF Progress
    <3> QED  BY <2>1, <2>2, <3>2, <3>4 DEF Progress, Holds
  <2>3. CASE ~(step = "block" /\ job = "write")
    <3>1. ~Command.writes
      BY <2>3 DEF Command
    <3>2. Kept
      BY <1>0, <2>1, <3>1, CommandType, SendKeeps DEF Holds
    <3> QED  BY <2>1, <2>3, <3>2 DEF Progress, Done
  <2> QED  BY <2>2, <2>3
<1>3. CASE SendFails \/ ReceiveTimesOut
  <2>1. CallEnds(FALSE) /\ UNCHANGED <<wire, answered, flash, refused>>
    BY <1>3 DEF SendFails, ReceiveTimesOut, dongleState
  <2>2. rom' = rom
    BY <2>1, CallEndsType
  <2>3. \A b \in 1..Blocks : Holds(b) => Holds(b)'
    BY <2>1, <2>2 DEF Holds
  <2> QED  BY <2>1, <2>3, CallEndsProgress
<1>4. CASE ReceiveAnswer
  <2>1. PICK empty \in BOOLEAN :
          /\ CallEnds(~empty) /\ awaiting /\ answered > 0
          /\ wire' = Tail(wire) /\ answered' = answered - 1 /\ UNCHANGED <<flash, refused>>
    BY <1>4 DEF ReceiveAnswer
  <2>2. rom' = rom
    BY <2>1, CallEndsType
  <2>3. \A b \in 1..Blocks : Holds(b) => Holds(b)'
    BY <1>0, <2>1, <2>2, ReceiveKeeps DEF Holds
  <2> QED  BY <2>1, <2>3, CallEndsProgress
<1>5. CASE DongleAnswers
  <2>1. /\ answered < Len(wire) /\ answered' = answered + 1
        /\ Answers(wire[answered + 1], flash, flash', refused, refused')
        /\ UNCHANGED <<rom, wire, job, step, next, failed, awaiting, verdict>>
    BY <1>5 DEF DongleAnswers, Answers, panelState, toldState
  <2>2. Kept
    BY <1>0, <2>1, AnswerKeeps DEF Holds
  <2> QED  BY <1>1, <2>1, <2>2
<1>6. CASE ConnectDevice
  <2>1. UNCHANGED <<rom, wire, answered, flash, refused, job, verdict>> /\ job = "none"
    BY <1>6 DEF ConnectDevice, mppsVars, dongleState, toldState, Alone, WorkerAlone
  <2> QED  BY <2>1 DEF Progress, Done, Holds
<1>7. CASE DisconnectDevice
  <2>1. UNCHANGED <<rom, wire, answered, flash, refused, job, verdict>> /\ job = "none"
    BY <1>7 DEF DisconnectDevice, panelState, dongleState, toldState, Alone, WorkerAlone
  <2> QED  BY <2>1 DEF Progress, Done, Holds
<1>8. CASE ReadRom
  <2>1. /\ UNCHANGED <<rom, wire, answered, flash, refused, verdict>>
        /\ job' = "read" /\ job = "none"
    BY <1>8 DEF ReadRom, StartJob, dongleState, toldState, Alone, WorkerAlone
  <2> QED  BY <2>1 DEF Progress, Done, Holds
<1>9. CASE AcceptChecklist
  <2>1. job' = "write" /\ step' = "enter" /\ failed' = FALSE
    BY <1>9 DEF AcceptChecklist, StartJob
  <2> QED  BY <2>1 DEF Progress
<1>10. CASE WriteRom \/ RejectChecklist
  <2>1. UNCHANGED <<rom, wire, answered, flash, refused, job, step, next, failed, awaiting,
                  verdict>>
    BY <1>10 DEF WriteRom, RejectChecklist, dongleState, toldState
  <2> QED  BY <1>1, <2>1 DEF Holds
<1>11. CASE HandlePosted
  <2>1. UNCHANGED <<rom, wire, answered, flash, refused, job, step, next, failed, awaiting,
                    verdict>>
    BY <1>11 DEF HandlePosted, dongleState
  <2> QED  BY <1>1, <2>1 DEF Holds
<1>12. CASE UNCHANGED mppsVars
  BY <1>1, <1>12 DEF mppsVars, Holds
<1> QED
  BY <1>2, <1>3, <1>4, <1>5, <1>6, <1>7, <1>8, <1>9, <1>10, <1>11, <1>12 DEF MppsNext

-----------------------------------------------------------------------------
(* The theorems. *)

MppsInv == MppsTypeOK /\ Alone /\ Progress

LEMMA InitInv == MppsInit => MppsInv
<1> SUFFICES ASSUME MppsInit PROVE MppsInv
  OBVIOUS
<1>1. MppsTypeOK
  BY InitTyped
<1>2. Alone
  BY DEF MppsInit, Alone, WorkerAlone
<1>3. Done
  BY DEF MppsInit, Done, Holds, Decided
<1> QED  BY <1>1, <1>2, <1>3 DEF MppsInit, MppsInv, Progress

LEMMA InvTold == MppsInv => TornIsTold
<1> SUFFICES ASSUME MppsInv, job # "write", verdict = "written",
                    NEW b \in (1..Blocks) \ refused
             PROVE  Settles(b) = rom
  BY DEF TornIsTold
<1> QED  BY DecidedSettles DEF MppsInv, Progress, Done

\* The whole invariant holds of the programmer.
LEMMA Inductive == MppsSpec => []MppsInv
<1>1. MppsInv /\ [MppsNext]_mppsVars => MppsInv'
  BY StepTyped, StepAlone, StepProgress DEF MppsInv
<1> QED  BY InitInv, <1>1, PTL DEF MppsSpec

\* connect, readRom, writeRom, disconnect and what the dongle answers keep every variable in
\* its range: no answer is taken that was not sent, no block is outside the ROM.
THEOREM MppsTyped == MppsSpec => []MppsTypeOK
<1>1. MppsInv => MppsTypeOK
  BY DEF MppsInv
<1> QED  BY Inductive, <1>1, PTL

\* readRom and writeRom keep the device to their worker until it has reported: no
\* disconnectDevice, connectDevice or second worker comes in between.
THEOREM WorkerIsAlone == MppsSpec => []WorkerAlone
<1>1. MppsInv => WorkerAlone
  BY DEF MppsInv, Alone
<1> QED  BY Inductive, <1>1, PTL

\* Whatever transfers of writeBlock fail, answer late or answer nothing, an ECU left between
\* two ROMs by writeRom was reported as a failure, the blocks the dongle refused left out.
THEOREM TornIsAlwaysTold == MppsSpec => []TornIsTold
BY Inductive, InvTold, PTL

-----------------------------------------------------------------------------
(***************************************************************************)
(* The Bluetooth helper.  Somebody always has what it takes to let go of the *)
(* socket: `Held`.                                                         *)
(***************************************************************************)

\* A function on 1..n is a sequence of that length.
LEMMA FunctionIsSeq ==
  ASSUME NEW S, NEW n \in Nat, NEW f \in [1..n -> S]
  PROVE  f \in Seq(S) /\ Len(f) = n
<1>1. f \in Seq(S)
  BY SeqDef
<1>2. DOMAIN f = 1..n /\ DOMAIN f = 1..Len(f) /\ Len(f) \in Nat
  BY <1>1, LenProperties
<1> QED
  BY <1>1, <1>2

\* Who will let go of the helper's socket: the driver it serves, the thread about to post
\* its success, or the result posted.
Held ==
  sSocket # 0 =>
    \/ driver # "idle"
    \/ \E t \in Threads : thread[t].at = "ok"
    \/ \E i \in 1..Len(results) : results[i].ok

BtResult == [ok : BOOLEAN, current : BOOLEAN]
BtThread == [at : {"none", "close", "connect", "store", "ok", "failed"}, current : BOOLEAN]

BtTyped ==
  /\ driver \in {"idle", "opening", "linked", "ready"}
  /\ attempt \in 0..MaxAttempt /\ io \in {"none", "open", "closed"}
  /\ limit \in BOOLEAN /\ retries \in 0..MaxRetries
  /\ thread \in [Threads -> BtThread]
  /\ results \in Seq(BtResult) /\ Len(results) <= MaxResults
  /\ sSocket \in Threads \cup {0} /\ sockets \subseteq Threads

LEMMA BtTypes == (BtTypeOK <=> BtTyped) /\ (BtTypeOK' <=> BtTyped')
BY DEF BtTypeOK, BtTyped, BtResult, BtThread

\* ++m_btGen changes what no result says.
LEMMA ResultsPast ==
  ASSUME BtTyped, results' = [i \in 1..Len(results) |-> [results[i] EXCEPT !.current = FALSE]]
  PROVE  /\ results' \in Seq(BtResult) /\ Len(results') = Len(results)
         /\ \A i \in 1..Len(results) : results'[i].ok = results[i].ok
<1>1. results \in Seq(BtResult) /\ Len(results) \in Nat
  BY DEF BtTyped
<1>2. \A i \in 1..Len(results) : results[i] \in BtResult
  BY <1>1
<1>3. results' \in [1..Len(results) -> BtResult]
  BY <1>2 DEF BtResult
<1>4. \A i \in 1..Len(results) : results'[i].ok = results[i].ok
  BY <1>2 DEF BtResult
<1> QED
  BY <1>1, <1>3, <1>4, FunctionIsSeq

LEMMA OutdateType ==
  ASSUME BtTyped, Outdate
  PROVE  thread' \in [Threads -> BtThread] /\ results' \in Seq(BtResult)
         /\ Len(results') = Len(results)
<1>1. thread' \in [Threads -> BtThread]
  BY DEF Outdate, BtTyped, BtThread
<1> QED
  BY <1>1, ResultsPast DEF Outdate

LEMMA StartNativeType ==
  ASSUME BtTyped, NEW n \in 0..MaxAttempt, StartNativeBt(n)
  PROVE  /\ thread' \in [Threads -> BtThread] /\ results' \in Seq(BtResult)
         /\ Len(results') = Len(results) /\ attempt' = n /\ limit' = TRUE
         /\ driver' = "opening" /\ io' = "none"
<1>1. thread' \in [Threads -> BtThread]
  <2>1. PICK t \in Threads :
          thread' = [u \in Threads |-> IF u = t THEN [at |-> "close", current |-> TRUE]
                                       ELSE [thread[u] EXCEPT !.current = FALSE]]
    BY DEF StartNativeBt
  <2>2. [at |-> "close", current |-> TRUE] \in BtThread
    BY DEF BtThread
  <2>3. \A u \in Threads : [thread[u] EXCEPT !.current = FALSE] \in BtThread
    BY DEF BtTyped, BtThread
  <2> QED
    BY <2>1, <2>2, <2>3
<1> QED
  BY <1>1, ResultsPast DEF StartNativeBt

LEMMA BtDisconnectedKeeps == ASSUME BtTyped, BtDisconnected PROVE BtTyped' /\ Held'
<1>1. /\ driver' = "idle" /\ attempt' = 0 /\ io' = "none" /\ limit' = FALSE /\ retries' = retries
      /\ sSocket' = 0 /\ sockets' = sockets \ {sSocket}
  BY DEF BtDisconnected, HelperClose
<1>2. BtTyped'
  <2>1. /\ thread' \in [Threads -> BtThread] /\ results' \in Seq(BtResult)
        /\ Len(results') = Len(results)
    BY OutdateType DEF BtDisconnected
  <2>2. limit' \in BOOLEAN
    BY <1>1
  <2> QED
    BY <1>1, <2>1, <2>2 DEF BtTyped, MaxAttempt
<1> QED
  BY <1>1, <1>2 DEF Held

LEMMA StartedKeeps ==
  ASSUME BtTyped, NEW n \in 0..MaxAttempt, StartNativeBt(n), HelperClose \/ UNCHANGED helper,
         retries' \in 0..MaxRetries
  PROVE  BtTyped' /\ Held'
<1>1. /\ thread' \in [Threads -> BtThread] /\ results' \in Seq(BtResult)
      /\ Len(results') = Len(results) /\ attempt' \in 0..MaxAttempt /\ limit' \in BOOLEAN
      /\ driver' = "opening" /\ io' = "none"
  BY StartNativeType
<1>2. sSocket' \in Threads \cup {0} /\ sockets' \subseteq Threads
  BY DEF HelperClose, helper, BtTyped
<1> QED
  BY <1>1, <1>2 DEF BtTyped, Held

LEMMA DriverKeeps ==
  ASSUME BtTyped, Held,
         ConnectBluetooth \/ DisconnectBluetooth \/ OnBtConnectTimeout \/ RetryAttempt
           \/ DongleReady \/ DongleSilent \/ PollFindsNone
  PROVE  BtTyped' /\ Held'
<1> USE DEF MaxAttempt, MaxRetries
<1>1. CASE ConnectBluetooth
  <2>1. StartNativeBt(0) /\ HelperClose /\ retries' \in 0..MaxRetries /\ 0 \in 0..MaxAttempt
    BY <1>1 DEF ConnectBluetooth, BtTyped
  <2> QED
    BY <2>1, StartedKeeps
<1>2. CASE DisconnectBluetooth \/ DongleSilent
  BY <1>2, BtDisconnectedKeeps DEF DisconnectBluetooth, DongleSilent
<1>3. CASE OnBtConnectTimeout
  <2>1. CASE attempt < MaxAttempt
    <3>1. attempt + 1 \in 0..MaxAttempt
      BY <2>1 DEF BtTyped
    <3> QED
      BY <1>3, <2>1, <3>1, StartedKeeps DEF OnBtConnectTimeout, BtTyped
  <2> QED
    BY <1>3, <2>1, BtDisconnectedKeeps DEF OnBtConnectTimeout
<1>4. CASE RetryAttempt
  <2>1. retries' \in 0..MaxRetries
    BY <1>4 DEF BtTyped, RetryAttempt
  <2>2. CASE driver \in {"opening", "linked"}
    <3>1. StartNativeBt(attempt) /\ (HelperClose \/ UNCHANGED helper) /\ attempt \in 0..MaxAttempt
      BY <1>4, <2>2 DEF RetryAttempt, BtTyped
    <3> QED
      BY <2>1, <3>1, StartedKeeps
  <2>3. CASE driver \notin {"opening", "linked"}
    BY <1>4, <2>1, <2>3 DEF BtTyped, RetryAttempt, helper, Held
  <2> QED
    BY <2>2, <2>3
<1>5. CASE DongleReady \/ PollFindsNone
  BY <1>5 DEF BtTyped, DongleReady, PollFindsNone, Held, attempts, helper
<1> QED
  BY <1>1, <1>2, <1>3, <1>4, <1>5

\* A result taken: the rest is still there, in its order.
LEMMA ResultTaken ==
  ASSUME BtTyped, results # <<>>
  PROVE  /\ Tail(results) \in Seq(BtResult) /\ Len(Tail(results)) = Len(results) - 1
         /\ Head(results) = results[1] /\ Head(results) \in BtResult
         /\ \A i \in 2..Len(results) :
              i - 1 \in 1..Len(Tail(results)) /\ Tail(results)[i - 1] = results[i]
<1>1. results \in Seq(BtResult) /\ Len(results) \in Nat \ {0}
  BY EmptySeq DEF BtTyped
<1>2. /\ Head(results) \in BtResult /\ Tail(results) \in Seq(BtResult)
      /\ Len(Tail(results)) = Len(results) - 1
      /\ \A i \in 1..Len(Tail(results)) : Tail(results)[i] = results[i + 1]
  BY <1>1, HeadTailProperties
<1>3. \A i \in 2..Len(results) : i - 1 \in 1..Len(Tail(results)) /\ (i - 1) + 1 = i
  BY <1>1, <1>2
<1> QED
  BY <1>1, <1>2, <1>3

LEMMA ResultKeeps ==
  ASSUME BtTyped, Held, OnAndroidBtResult
  PROVE  BtTyped' /\ Held'
<1>1. results # <<>> /\ results' = Tail(results)
  BY DEF OnAndroidBtResult
<1>2. /\ results' \in Seq(BtResult) /\ Len(results') <= MaxResults
      /\ Head(results) = results[1] /\ Head(results) \in BtResult
      /\ results \in Seq(BtResult) /\ Len(results) \in Nat
  BY <1>1, ResultTaken, ThreadsAssumption DEF BtTyped
<1>3. BtTyped'
  <2>1. thread' = thread /\ ((sSocket' = sSocket /\ sockets' = sockets) \/ HelperClose)
    BY DEF OnAndroidBtResult, attempts, helper
  <2>2. sSocket' \in Threads \cup {0} /\ sockets' \subseteq Threads
    BY <2>1 DEF BtTyped, HelperClose
  <2>3. /\ driver' \in {"idle", "opening", "linked", "ready"} /\ io' \in {"none", "open", "closed"}
        /\ attempt' \in 0..MaxAttempt /\ limit' \in BOOLEAN /\ retries' \in 0..MaxRetries
    <3>1. limit' \in BOOLEAN
      BY DEF OnAndroidBtResult, BtTyped, attempts
    <3>2. /\ driver' \in {driver, "linked"} /\ io' \in {io, "open"}
          /\ attempt' \in {attempt, attempt + 1} /\ (attempt' # attempt => attempt < MaxAttempt)
          /\ retries' \in {retries, retries + 1} /\ (retries' # retries => retries < MaxRetries)
      BY DEF OnAndroidBtResult, attempts
    <3> QED
      BY <3>1, <3>2 DEF BtTyped, MaxAttempt, MaxRetries
  <2> QED
    BY <1>2, <2>1, <2>2, <2>3 DEF BtTyped
<1>4. ASSUME Head(results).ok PROVE Held'
  <2>1. HelperClose \/ driver' = "linked"
    BY <1>4 DEF OnAndroidBtResult
  <2> QED
    BY <2>1 DEF HelperClose, Held
<1>5. ASSUME ~Head(results).ok PROVE Held'
  <2>1. UNCHANGED <<driver, thread, helper>>
    BY <1>5 DEF OnAndroidBtResult, attempts
  <2>2. \A i \in 1..Len(results) : results[i].ok => i \in 2..Len(results)
    BY <1>2, <1>5
  <2>3. \A i \in 2..Len(results) :
          i - 1 \in 1..Len(results') /\ results'[i - 1] = results[i]
    BY <1>1, ResultTaken
  <2> SUFFICES ASSUME sSocket # 0, driver = "idle", ~(\E t \in Threads : thread[t].at = "ok")
               PROVE  \E i \in 1..Len(results') : results'[i].ok
    BY <2>1 DEF Held, helper
  <2>4. PICK i \in 1..Len(results) : results[i].ok
    BY DEF Held
  <2>5. i - 1 \in 1..Len(results') /\ results'[i - 1].ok
    BY <2>2, <2>3, <2>4
  <2> QED
    BY <2>5
<1> QED
  BY <1>3, <1>4, <1>5

LEMMA FailedKeeps ==
  ASSUME BtTyped, OnAndroidBtFailed
  PROVE  BtTyped' /\ Held'
<1>1. results \in Seq(BtResult) /\ Len(results) \in Nat \ {0}
  BY EmptySeq DEF OnAndroidBtFailed, BtTyped
<1>2. results' \in Seq(BtResult) /\ Len(results') = Len(results) - 1
  <2>1. \A i \in 1..Len(results) - 1 : [results[i + 1] EXCEPT !.current = FALSE] \in BtResult
    <3>1. \A i \in 1..Len(results) - 1 : results[i + 1] \in BtResult
      BY <1>1
    <3>2. \A x \in BtResult : [x EXCEPT !.current = FALSE] \in BtResult
      BY DEF BtResult
    <3> QED
      BY <3>1, <3>2
  <2>2. results' = [i \in 1..Len(results) - 1 |-> [results[i + 1] EXCEPT !.current = FALSE]]
    BY DEF OnAndroidBtFailed
  <2>3. results' \in [1..Len(results) - 1 -> BtResult] /\ Len(results) - 1 \in Nat
    BY <1>1, <2>1, <2>2
  <2> QED
    BY <2>3, FunctionIsSeq
<1>3. thread' \in [Threads -> BtThread]
  BY DEF OnAndroidBtFailed, BtTyped, BtThread
<1>4. /\ driver' = "idle" /\ attempt' = 0 /\ io' = "none" /\ limit' = FALSE /\ retries' = retries
      /\ sSocket' = 0 /\ sockets' = sockets \ {sSocket}
  BY DEF OnAndroidBtFailed, HelperClose
<1>5. Len(results') <= MaxResults
  BY <1>1, <1>2, ThreadsAssumption DEF BtTyped
<1> QED
  <2>1. limit' \in BOOLEAN
    BY <1>4
  <2> QED
    BY <1>2, <1>3, <1>4, <1>5, <2>1 DEF BtTyped, MaxAttempt, Held

LEMMA ThreadKeeps ==
  ASSUME BtTyped, Held, NEW t \in Threads,
         \/ ThreadCloses(t) \/ ThreadConnects(t) \/ ThreadStores(t)
         \/ ThreadFails(t) \/ ThreadEnds(t) \/ Finalize(t)
  PROVE  BtTyped' /\ Held'
<1> USE DEF BtTyped
<1>1. CASE ThreadCloses(t) \/ ThreadFails(t)
  <2>1. thread' \in [Threads -> BtThread]
    BY <1>1 DEF ThreadCloses, ThreadFails, BtThread
  <2> QED
    BY <1>1, <2>1 DEF ThreadCloses, ThreadFails, HelperClose, Held, attempts
<1>2. CASE ThreadConnects(t)
  <2>1. /\ thread' \in [Threads -> BtThread]
        /\ \A u \in Threads : thread[u].at = "ok" => thread'[u].at = "ok"
    BY <1>2 DEF ThreadConnects, BtThread
  <2> QED
    BY <1>2, <2>1 DEF ThreadConnects, Held, attempts
<1>3. CASE ThreadStores(t)
  <2>1. thread' \in [Threads -> BtThread] /\ thread'[t].at = "ok"
    BY <1>3 DEF ThreadStores, BtThread
  <2> QED
    BY <1>3, <2>1 DEF ThreadStores, Held, attempts
<1>4. CASE ThreadEnds(t)
  <2>1. /\ thread' \in [Threads -> BtThread]
        /\ \A u \in Threads \ {t} : thread'[u] = thread[u]
    BY <1>4 DEF ThreadEnds, BtThread
  <2> DEFINE r == [ok |-> thread[t].at = "ok", current |-> thread[t].current]
  <2>2. r \in BtResult /\ (thread[t].at = "ok" => r.ok) /\ results' = Append(results, r)
    BY <1>4 DEF ThreadEnds, BtResult, BtThread
  <2> HIDE DEF r
  <2>3. /\ results' \in Seq(BtResult) /\ Len(results') = Len(results) + 1
        /\ \A i \in 1..Len(results) : results'[i] = results[i] /\ i \in 1..Len(results')
        /\ results'[Len(results) + 1] = r /\ Len(results) + 1 \in 1..Len(results')
    BY <2>2
  <2>4. BtTyped'
    BY <1>4, <2>1, <2>3, ThreadsAssumption DEF ThreadEnds, attempts, helper
  <2>5. Held'
    BY <1>4, <2>1, <2>2, <2>3 DEF ThreadEnds, Held, helper
  <2> QED
    BY <2>4, <2>5
<1>5. CASE Finalize(t)
  BY <1>5 DEF Finalize, Held, attempts
<1> QED
  BY <1>1, <1>2, <1>3, <1>4, <1>5

LEMMA BtNextKeeps ==
  ASSUME BtTyped, Held, [BtNext]_btVars
  PROVE  BtTyped' /\ Held'
<1>1. CASE UNCHANGED btVars
  BY <1>1 DEF btVars, BtTyped, Held
<1> QED
  BY <1>1, DriverKeeps, ResultKeeps, FailedKeeps, ThreadKeeps DEF BtNext

LEMMA BtInitKeeps == BtInit => BtTyped /\ Held
<1> SUFFICES ASSUME BtInit PROVE BtTyped /\ Held
  OBVIOUS
<1>1. thread \in [Threads -> BtThread]
  BY DEF BtInit, BtThread
<1>2. results \in Seq(BtResult) /\ Len(results) <= MaxResults
  BY EmptySeq, ThreadsAssumption DEF BtInit
<1> QED
  <2>1. limit \in BOOLEAN
    BY DEF BtInit
  <2>2. driver = "idle" /\ attempt = 0 /\ io = "none" /\ retries = 0 /\ sSocket = 0 /\ sockets = {}
    BY DEF BtInit
  <2> QED
    BY <1>1, <1>2, <2>1, <2>2 DEF BtTyped, Held, MaxAttempt, MaxRetries

\* Whatever attempts are given up, time out, fail or come late, the helper holds no socket
\* once the driver is idle and the threads are through.
THEOREM DongleIsLetGo == BtSpec => [](BtTypeOK /\ DongleLetGo)
<1>1. BtTyped /\ Held => DongleLetGo
  BY DEF Held, DongleLetGo
<1>2. BtTyped => BtTypeOK
  BY BtTypes
<1> QED
  BY <1>1, <1>2, BtInitKeeps, BtNextKeeps, PTL DEF BtSpec

-----------------------------------------------------------------------------
(***************************************************************************)
(* The logging service.  What is still to be called, or done by Android, ends *)
(* with a stop once nobody drives: `Stopped`.                              *)
(***************************************************************************)

\* The last command posted while nobody drives is the one that stops: what is still to be
\* called ends with a stop, or else what Android has still to do, or else all is done.
\* A service restored after its process (`orphan`) is the exception.
Stopped ==
  /\ watchdog => driving
  /\ ~driving /\ calls # <<>> => calls[Len(calls)] = "stop"
  /\ ~driving /\ calls = <<>> /\ commands # <<>> =>
       \/ commands[Len(commands)] \in {"stop", "destroy"}
       \/ orphan /\ commands = <<"again">>
  /\ ~driving /\ calls = <<>> /\ commands = <<>> => orphan \/ (~wakeLock /\ ~sticky)

LEMMA AppendFacts ==
  ASSUME NEW S, NEW s \in Seq(S), NEW x \in S
  PROVE  /\ Append(s, x) \in Seq(S) /\ Len(Append(s, x)) = Len(s) + 1 /\ Append(s, x) # <<>>
         /\ Append(s, x)[Len(Append(s, x))] = x
<1>1. Append(s, x) \in Seq(S) /\ Len(Append(s, x)) = Len(s) + 1 /\ Len(s) \in Nat
  OBVIOUS
<1>2. Append(s, x)[Len(s) + 1] = x
  BY <1>1
<1>3. Append(s, x) # <<>>
  BY <1>1, EmptySeq
<1> QED
  BY <1>1, <1>2, <1>3

LEMMA TailFacts ==
  ASSUME NEW S, NEW s \in Seq(S), s # <<>>
  PROVE  /\ Tail(s) \in Seq(S) /\ Head(s) \in S /\ Len(Tail(s)) = Len(s) - 1
         /\ Tail(s) # <<>> => Tail(s)[Len(Tail(s))] = s[Len(s)]
         /\ Tail(s) = <<>> => Head(s) = s[Len(s)] /\ s = <<Head(s)>>
<1>1. /\ Tail(s) \in Seq(S) /\ Head(s) \in S /\ Len(Tail(s)) = Len(s) - 1
      /\ \A i \in 1..Len(Tail(s)) : Tail(s)[i] = s[i + 1]
  BY HeadTailProperties
<1>2. Len(s) \in Nat \ {0} /\ Head(s) = s[1]
  BY EmptySeq
<1>3. ASSUME Tail(s) # <<>> PROVE Tail(s)[Len(Tail(s))] = s[Len(s)]
  <2>1. Len(Tail(s)) \in 1..Len(Tail(s)) /\ Len(Tail(s)) + 1 = Len(s)
    BY <1>1, <1>2, <1>3, EmptySeq
  <2> QED
    BY <1>1, <2>1
<1>4. ASSUME Tail(s) = <<>> PROVE Head(s) = s[Len(s)] /\ s = <<Head(s)>>
  <2>1. Len(Tail(s)) = 0
    BY <1>4, EmptySeq
  <2>2. Len(s) = 1
    <3>1. Len(s) - 1 = 0 /\ Len(s) \in Nat
      BY <1>1, <1>2, <2>1
    <3> QED
      BY <3>1
  <2>3. <<s[1]>> \in Seq(S) /\ Len(<<s[1]>>) = 1 /\ <<s[1]>>[1] = s[1]
    BY <1>1, <1>2
  <2>4. \A i \in 1..Len(s) : s[i] = <<s[1]>>[i]
    BY <2>2, <2>3
  <2>5. s = <<s[1]>>
    BY <2>2, <2>3, <2>4, SeqEqual
  <2> QED
    BY <1>2, <2>2, <2>5
<1> QED
  BY <1>1, <1>3, <1>4

CallNames == {"start", "update", "stop"}
CommandNames == {"start", "stop", "destroy", "again"}

ServiceTyped ==
  /\ driving \in BOOLEAN /\ suspended \in BOOLEAN /\ watchdog \in BOOLEAN
  /\ service \in BOOLEAN /\ wakeLock \in BOOLEAN /\ sticky \in BOOLEAN /\ orphan \in BOOLEAN
  /\ calls \in Seq(CallNames) /\ Len(calls) <= MaxCalls
  /\ commands \in Seq(CommandNames) /\ Len(commands) <= MaxCalls + mishaps
  /\ mishaps \in 0..MaxMishaps

LEMMA ServiceTypes == ServiceTyped <=> ServiceTypeOK
BY DEF ServiceTyped, ServiceTypeOK, CallNames, CommandNames

LEMMA PostTyped ==
  ASSUME ServiceTyped, NEW c \in CallNames, PostCall(c)
  PROVE  /\ calls' \in Seq(CallNames) /\ Len(calls') <= MaxCalls /\ calls' # <<>>
         /\ calls'[Len(calls')] = c
<1>1. calls \in Seq(CallNames) /\ Len(calls) \in Nat /\ Len(calls) < MaxCalls
      /\ calls' = Append(calls, c)
  BY DEF ServiceTyped, PostCall
<1>2. /\ calls' \in Seq(CallNames) /\ Len(calls') = Len(calls) + 1 /\ calls' # <<>>
      /\ calls'[Len(calls')] = c
  BY <1>1, AppendFacts
<1> QED
  BY <1>1, <1>2, ServiceAssumption

LEMMA ControllerKeeps ==
  ASSUME ServiceTyped, Stopped,
         BeginDriving \/ EndDriving \/ ApplicationStateChanged \/ OnBackgroundWatchdog
  PROVE  ServiceTyped' /\ Stopped'
<1>1. /\ commands' = commands /\ mishaps' = mishaps /\ UNCHANGED phone
      /\ driving' \in BOOLEAN /\ suspended' \in BOOLEAN /\ watchdog' \in BOOLEAN
  BY DEF ServiceTyped, BeginDriving, EndDriving, ApplicationStateChanged, OnBackgroundWatchdog,
         controller
<1>2. \/ calls' = calls /\ driving' = driving /\ watchdog' = watchdog
      \/ \E c \in CallNames : PostCall(c) /\ (~driving' => c = "stop" /\ ~watchdog')
  <2>1. CASE BeginDriving
    BY <2>1 DEF BeginDriving, CallNames
  <2>2. CASE EndDriving
    BY <2>2 DEF EndDriving, CallNames
  <2>3. CASE ApplicationStateChanged
    BY <2>3 DEF ApplicationStateChanged, CallNames
  <2>4. CASE OnBackgroundWatchdog
    <3>1. (IF suspended THEN "start" ELSE "update") \in CallNames
      BY DEF CallNames
    <3>2. driving
      BY <2>4 DEF OnBackgroundWatchdog, Stopped
    <3> QED
      BY <2>4, <3>1, <3>2 DEF OnBackgroundWatchdog, controller
  <2> QED
    BY <2>1, <2>2, <2>3, <2>4
<1>3. CASE calls' = calls /\ driving' = driving /\ watchdog' = watchdog
  BY <1>1, <1>3 DEF ServiceTyped, Stopped, phone
<1>4. ASSUME NEW c \in CallNames, PostCall(c), ~driving' => c = "stop" /\ ~watchdog'
      PROVE  ServiceTyped' /\ Stopped'
  <2>1. /\ calls' \in Seq(CallNames) /\ Len(calls') <= MaxCalls /\ calls' # <<>>
        /\ calls'[Len(calls')] = c
    BY <1>4, PostTyped
  <2>2. ServiceTyped'
    BY <1>1, <2>1 DEF ServiceTyped, phone
  <2> QED
    BY <1>1, <1>4, <2>1, <2>2 DEF Stopped
<1> QED
  BY <1>2, <1>3, <1>4

LEMMA CallKeeps ==
  ASSUME ServiceTyped, Stopped, CallStarts \/ CallStop
  PROVE  ServiceTyped' /\ Stopped'
<1>1. /\ calls # <<>> /\ calls' = Tail(calls) /\ Head(calls) \in CallNames
      /\ UNCHANGED controller /\ UNCHANGED phone
  BY DEF CallStarts, CallStop, NextCall, CallNames
<1>2. /\ calls' \in Seq(CallNames) /\ Len(calls') <= MaxCalls
      /\ calls' # <<>> => calls'[Len(calls')] = calls[Len(calls)]
      /\ calls' = <<>> => Head(calls) = calls[Len(calls)]
  <2>1. calls \in Seq(CallNames) /\ Len(calls) \in Nat /\ Len(calls) <= MaxCalls
    BY DEF ServiceTyped
  <2> QED
    BY <1>1, <2>1, TailFacts, ServiceAssumption
<1>3. /\ mishaps' \in 0..MaxMishaps /\ mishaps' >= mishaps
      /\ \/ commands' = commands /\ Head(calls) # "stop"
         \/ \E c \in CommandNames :
              /\ commands' = Append(commands, c)
              /\ (Head(calls) = "stop" => c \in {"stop", "destroy"})
              /\ Len(commands) < MaxCalls + mishaps'
  <2>1. /\ mishaps \in 0..MaxMishaps /\ Len(commands) \in Nat
        /\ Len(commands) <= MaxCalls + mishaps
    BY DEF ServiceTyped
  <2>2. {"start", "stop", "destroy"} \subseteq CommandNames
    BY DEF CommandNames
  <2>3. CASE CallStarts
    <3>1. Head(calls) # "stop"
      BY <2>3 DEF CallStarts, NextCall
    <3>2. CASE Sent("start")
      <4>1. /\ mishaps' = mishaps /\ commands' = Append(commands, "start")
            /\ Len(commands) < MaxCalls
        BY <3>2 DEF Sent
      <4>2. Len(commands) < MaxCalls + mishaps'
        BY <2>1, <4>1, ServiceAssumption
      <4> QED
        BY <2>1, <2>2, <3>1, <4>1, <4>2
    <3>3. CASE StartRefused /\ UNCHANGED commands
      <4>1. mishaps' = mishaps + 1 /\ mishaps < MaxMishaps /\ commands' = commands
        BY <3>3 DEF StartRefused, Mishap
      <4> QED
        BY <2>1, <3>1, <4>1, ServiceAssumption
    <3> QED
      BY <2>3, <3>2, <3>3 DEF CallStarts
  <2>4. CASE CallStop
    <3>1. CASE Sent("stop")
      <4>1. /\ mishaps' = mishaps /\ commands' = Append(commands, "stop")
            /\ Len(commands) < MaxCalls
        BY <3>1 DEF Sent
      <4>2. Len(commands) < MaxCalls + mishaps'
        BY <2>1, <4>1, ServiceAssumption
      <4> QED
        BY <2>1, <2>2, <4>1, <4>2
    <3>2. CASE StartRefused /\ commands' = Append(commands, "destroy")
      <4>1. mishaps' = mishaps + 1 /\ mishaps < MaxMishaps
        BY <3>2 DEF StartRefused, Mishap
      <4>2. Len(commands) < MaxCalls + mishaps' /\ mishaps' \in 0..MaxMishaps
        BY <2>1, <4>1, ServiceAssumption
      <4> QED
        BY <2>1, <2>2, <3>2, <4>1, <4>2
    <3> QED
      BY <2>4, <3>1, <3>2 DEF CallStop
  <2> QED
    BY <2>3, <2>4
<1>4. commands \in Seq(CommandNames) /\ Len(commands) \in Nat
  BY DEF ServiceTyped
<1>5. CASE commands' = commands /\ Head(calls) # "stop"
  <2>1. ServiceTyped'
    <3>1. Len(commands) <= MaxCalls + mishaps'
      BY <1>3, <1>4, ServiceAssumption DEF ServiceTyped
    <3> QED
      BY <1>1, <1>2, <1>3, <1>5, <3>1 DEF ServiceTyped, controller, phone
  <2>2. ~driving' => calls' # <<>> /\ calls'[Len(calls')] = "stop"
    BY <1>1, <1>2, <1>5 DEF Stopped, controller
  <2> QED
    BY <1>1, <2>1, <2>2 DEF Stopped, controller
<1>6. ASSUME NEW c \in CommandNames, commands' = Append(commands, c),
             Head(calls) = "stop" => c \in {"stop", "destroy"},
             Len(commands) < MaxCalls + mishaps'
      PROVE  ServiceTyped' /\ Stopped'
  <2>1. /\ commands' \in Seq(CommandNames) /\ Len(commands') = Len(commands) + 1
        /\ commands' # <<>> /\ commands'[Len(commands')] = c
    BY <1>4, <1>6, AppendFacts
  <2>2. Len(commands') <= MaxCalls + mishaps'
    BY <1>3, <1>4, <1>6, <2>1, ServiceAssumption
  <2>3. ServiceTyped'
    BY <1>1, <1>2, <1>3, <2>1, <2>2 DEF ServiceTyped, controller, phone
  <2>4. ~driving' /\ calls' = <<>> => c \in {"stop", "destroy"}
    BY <1>1, <1>2, <1>6 DEF Stopped, controller
  <2>5. ~driving' /\ calls' # <<>> => calls'[Len(calls')] = "stop"
    BY <1>1, <1>2 DEF Stopped, controller
  <2> QED
    BY <1>1, <2>1, <2>3, <2>4, <2>5 DEF Stopped, controller
<1> QED
  BY <1>3, <1>5, <1>6

LEMMA CommandKeeps ==
  ASSUME ServiceTyped, Stopped, OnStartCommand \/ OnStopCommand \/ OnDestroy
  PROVE  ServiceTyped' /\ Stopped'
<1>1. /\ commands # <<>> /\ UNCHANGED controller /\ calls' = calls /\ mishaps' = mishaps
      /\ service' \in BOOLEAN /\ wakeLock' \in BOOLEAN /\ sticky' \in BOOLEAN
      /\ orphan' \in BOOLEAN
  BY DEF OnStartCommand, OnStopCommand, OnDestroy, NextCommand, ServiceTyped
<1>2. /\ commands \in Seq(CommandNames) /\ Len(commands) \in Nat \ {0}
      /\ Len(commands) <= MaxCalls + mishaps /\ mishaps \in Nat /\ MaxCalls \in Nat
  BY <1>1, EmptySeq, ServiceAssumption DEF ServiceTyped
<1>3. /\ Tail(commands) \in Seq(CommandNames) /\ Len(Tail(commands)) = Len(commands) - 1
      /\ Tail(commands) # <<>> =>
           Tail(commands)[Len(Tail(commands))] = commands[Len(commands)]
      /\ Tail(commands) = <<>> =>
           Head(commands) = commands[Len(commands)] /\ commands = <<Head(commands)>>
  BY <1>1, <1>2, TailFacts
<1>4. Stopped /\ ~driving /\ calls = <<>> /\ Tail(commands) # <<>> =>
        commands[Len(commands)] \in {"stop", "destroy"}
  <2>1. Tail(commands) # <<>> => commands # <<"again">>
    <3>1. Tail(commands) # <<>> => Len(commands) > 1
      BY <1>2, <1>3, EmptySeq
    <3>2. commands = <<"again">> => Len(commands) = 1
      OBVIOUS
    <3>3. \A n \in Nat : n > 1 => n # 1
      OBVIOUS
    <3> QED
      BY <1>2, <3>1, <3>2, <3>3, Zenon
  <2> QED
    BY <1>1, <2>1 DEF Stopped
<1>5. CASE OnStartCommand
  <2>1. commands' = Tail(commands) /\ orphan' = orphan
    BY <1>5 DEF OnStartCommand
  <2>2. ServiceTyped'
    BY <1>1, <1>2, <1>3, <2>1 DEF ServiceTyped, controller
  <2>3. ~driving /\ calls = <<>> /\ Tail(commands) = <<>> => orphan
    BY <1>1, <1>3, <1>5 DEF Stopped, OnStartCommand, NextCommand
  <2> QED
    BY <1>1, <1>3, <1>4, <2>1, <2>2, <2>3 DEF Stopped, controller
<1>6. CASE OnStopCommand
  <2>1. commands' = Append(Tail(commands), "destroy") /\ "destroy" \in CommandNames
    BY <1>6 DEF OnStopCommand, CommandNames
  <2>2. /\ commands' \in Seq(CommandNames) /\ Len(commands') = Len(Tail(commands)) + 1
        /\ commands' # <<>> /\ commands'[Len(commands')] = "destroy"
    BY <1>3, <2>1, AppendFacts
  <2>3. Len(commands') <= MaxCalls + mishaps
    BY <1>2, <1>3, <2>2
  <2>4. ServiceTyped'
    BY <1>1, <2>2, <2>3 DEF ServiceTyped, controller
  <2> QED
    BY <1>1, <2>2, <2>4 DEF Stopped, controller
<1>7. CASE OnDestroy
  <2>1. commands' = Tail(commands) /\ ~wakeLock' /\ ~sticky'
    BY <1>7 DEF OnDestroy
  <2>2. ServiceTyped'
    BY <1>1, <1>2, <1>3, <2>1 DEF ServiceTyped, controller
  <2> QED
    BY <1>1, <1>3, <1>4, <2>1, <2>2 DEF Stopped, controller
<1> QED
  BY <1>5, <1>6, <1>7

LEMMA MishapKeeps ==
  ASSUME ServiceTyped, Stopped, ServiceKilled \/ ProcessEnds
  PROVE  ServiceTyped' /\ Stopped'
<1>1. /\ mishaps' \in 0..MaxMishaps /\ mishaps \in Nat /\ mishaps' = mishaps + 1
      /\ service' = FALSE /\ wakeLock' = FALSE
  <2>1. Mishap /\ service' = FALSE /\ wakeLock' = FALSE
    BY DEF ServiceKilled, ProcessEnds
  <2>2. mishaps \in 0..MaxMishaps
    BY DEF ServiceTyped
  <2>3. mishaps < MaxMishaps /\ mishaps' = mishaps + 1
    BY <2>1 DEF Mishap
  <2> QED
    BY <2>1, <2>2, <2>3, ServiceAssumption
<1> DEFINE one == <<"again">>
<1>3. one \in Seq(CommandNames) /\ Len(one) = 1 /\ one # <<>>
  BY DEF CommandNames
<1>4. calls \in Seq(CallNames) /\ commands \in Seq(CommandNames)
  BY DEF ServiceTyped
<1>5. CASE ServiceKilled
  <2>1. UNCHANGED <<controller, calls, sticky, orphan>>
    BY <1>5 DEF ServiceKilled
  <2>2. commands' = commands \/ (sticky /\ commands = <<>> /\ commands' = one)
    BY <1>5 DEF ServiceKilled
  <2> HIDE DEF one
  <2>3. commands' \in Seq(CommandNames) /\ Len(commands') <= MaxCalls + mishaps'
    <3>1. 1 <= MaxCalls + mishaps' /\ MaxCalls + mishaps <= MaxCalls + mishaps'
      BY <1>1, ServiceAssumption
    <3>2. Len(commands) <= MaxCalls + mishaps /\ Len(commands) \in Nat
      BY DEF ServiceTyped
    <3>3. Len(commands) <= MaxCalls + mishaps'
      BY <1>1, <3>2, ServiceAssumption
    <3> QED
      BY <1>3, <1>4, <2>2, <3>1, <3>3
  <2>4. ServiceTyped'
    <3>1. service' \in BOOLEAN /\ wakeLock' \in BOOLEAN
      BY <1>1
    <3> QED
      BY <1>1, <2>1, <2>3, <3>1 DEF ServiceTyped, controller
  <2>5. CASE commands' = commands
    BY <1>1, <2>1, <2>4, <2>5 DEF Stopped, controller
  <2>6. CASE sticky /\ commands = <<>> /\ commands' = one
    BY <1>3, <2>1, <2>4, <2>6 DEF Stopped, controller, one
  <2> QED
    BY <2>2, <2>5, <2>6
<1>6. CASE ProcessEnds
  <2>1. /\ driving' = FALSE /\ suspended' = FALSE /\ watchdog' = FALSE /\ calls' = <<>>
        /\ commands' = <<>> \/ commands' = one
        /\ orphan' = (commands' # <<>>) /\ sticky' = orphan'
    BY <1>6 DEF ProcessEnds
  <2> HIDE DEF one
  <2>2. <<>> \in Seq(CommandNames) /\ <<>> \in Seq(CallNames) /\ Len(<<>>) = 0
    BY EmptySeq
  <2>3. commands' \in Seq(CommandNames) /\ Len(commands') <= MaxCalls + mishaps'
    <3>1. 0 <= MaxCalls + mishaps' /\ 1 <= MaxCalls + mishaps'
      BY <1>1, ServiceAssumption
    <3> QED
      BY <1>3, <2>1, <2>2, <3>1
  <2>4. calls' \in Seq(CallNames) /\ Len(calls') <= MaxCalls
    BY <2>1, <2>2, ServiceAssumption
  <2>5. /\ driving' \in BOOLEAN /\ suspended' \in BOOLEAN /\ watchdog' \in BOOLEAN
        /\ service' \in BOOLEAN /\ wakeLock' \in BOOLEAN /\ orphan' \in BOOLEAN
        /\ sticky' \in BOOLEAN
    BY <1>1, <2>1
  <2>6. ServiceTyped'
    BY <1>1, <2>3, <2>4, <2>5 DEF ServiceTyped
  <2>7. commands' # <<>> => orphan' /\ commands' = one
    BY <2>1
  <2>8. commands' = <<>> => ~sticky'
    BY <2>1
  <2> QED
    BY <1>1, <2>1, <2>6, <2>7, <2>8 DEF Stopped, one
<1> QED
  BY <1>5, <1>6

\* However sessions, the background, refused starts and kills follow each other, a phone
\* without a session lets its wake lock go once all that was posted is done.
THEOREM PhoneMaySleep ==
  ServiceInit /\ [][ServiceNext]_serviceVars => [](ServiceTypeOK /\ WakeLockReleased)
<1>1. ServiceInit => ServiceTyped /\ Stopped
  <2> SUFFICES ASSUME ServiceInit PROVE ServiceTyped /\ Stopped
    OBVIOUS
  <2>1. calls \in Seq(CallNames) /\ commands \in Seq(CommandNames) /\ calls = <<>>
        /\ commands = <<>> /\ Len(calls) = 0 /\ Len(commands) = 0
    BY EmptySeq DEF ServiceInit
  <2>2. mishaps \in 0..MaxMishaps /\ mishaps = 0
    BY ServiceAssumption DEF ServiceInit
  <2>3. /\ driving \in BOOLEAN /\ suspended \in BOOLEAN /\ watchdog \in BOOLEAN
        /\ service \in BOOLEAN /\ wakeLock \in BOOLEAN /\ orphan \in BOOLEAN
        /\ sticky \in BOOLEAN
    BY DEF ServiceInit
  <2>4. ~watchdog /\ ~wakeLock /\ ~sticky
    BY DEF ServiceInit
  <2> QED
    BY <2>1, <2>2, <2>3, <2>4, ServiceAssumption DEF ServiceTyped, Stopped
<1>2. ServiceTyped /\ Stopped /\ [ServiceNext]_serviceVars => ServiceTyped' /\ Stopped'
  <2> SUFFICES ASSUME ServiceTyped, Stopped, [ServiceNext]_serviceVars
               PROVE  ServiceTyped' /\ Stopped'
    OBVIOUS
  <2>1. CASE UNCHANGED serviceVars
    BY <2>1 DEF serviceVars, ServiceTyped, Stopped
  <2> QED
    BY <2>1, ControllerKeeps, CallKeeps, CommandKeeps, MishapKeeps DEF ServiceNext
<1>3. ServiceTyped /\ Stopped => ServiceTypeOK /\ WakeLockReleased
  BY ServiceTypes DEF Stopped, WakeLockReleased
<1> QED
  BY <1>1, <1>2, <1>3, PTL

-----------------------------------------------------------------------------
(***************************************************************************)
(* The whole.                                                              *)
(***************************************************************************)

LEMMA CanInitTyped == CanInit => CanTypeOK
<1> SUFFICES ASSUME CanInit PROVE CanTypeOK
  OBVIOUS
<1>1. /\ capture = "none" /\ mail = <<>> /\ interfaces \in BOOLEAN /\ startOn \in BOOLEAN
      /\ stopOn \in BOOLEAN /\ refreshOn \in BOOLEAN
  BY DEF CanInit
<1>2. mail \in Seq({"frame", "error"}) /\ Len(mail) = 0 /\ MaxPosted \in Nat
  BY <1>1, CanAssumption DEF CanAssumption
<1> QED
  BY <1>1, <1>2 DEF CanTypeOK

LEMMA CanStepTyped == CanTypeOK /\ [CanNext]_canVars => CanTypeOK'
<1> SUFFICES ASSUME CanTypeOK, [CanNext]_canVars PROVE CanTypeOK'
  OBVIOUS
<1>1. /\ capture' \in {"none", "opening", "reading", "closed"}
      /\ {interfaces', startOn', stopOn', refreshOn'} \subseteq BOOLEAN
  BY DEF CanTypeOK, CanNext, canVars, RefreshInterfaces, StartCapture, StopClicked,
     StopCapture, OpenInterface, OpenFails, ReadFrame, Deliver
<1>2. mail \in Seq({"frame", "error"}) /\ Len(mail) <= MaxPosted
  BY DEF CanTypeOK
<1>3. \/ mail' = mail
      \/ Len(mail) < MaxPosted /\ \E m \in {"frame", "error"} : mail' = Append(mail, m)
      \/ mail # <<>> /\ mail' = Tail(mail)
  BY DEF CanNext, canVars, RefreshInterfaces, StartCapture, StopClicked, StopCapture,
     OpenInterface, OpenFails, ReadFrame, Deliver, Post
<1>4. MaxPosted \in Nat
  BY CanAssumption DEF CanAssumption
<1>5. mail' \in Seq({"frame", "error"}) /\ Len(mail') <= MaxPosted
  <2>1. CASE mail' = mail
    BY <1>2, <2>1
  <2>2. CASE Len(mail) < MaxPosted /\ \E m \in {"frame", "error"} : mail' = Append(mail, m)
    <3>1. PICK m \in {"frame", "error"} : mail' = Append(mail, m)
      BY <2>2
    <3>2. mail' \in Seq({"frame", "error"}) /\ Len(mail') = Len(mail) + 1 /\ Len(mail) \in Nat
      BY <1>2, <3>1
    <3> QED
      BY <1>4, <2>2, <3>2
  <2>3. CASE mail # <<>> /\ mail' = Tail(mail)
    <3>1. mail' \in Seq({"frame", "error"}) /\ Len(mail') = Len(mail) - 1 /\ Len(mail) \in Nat
      BY <1>2, <2>3, HeadTailProperties
    <3> QED
      BY <1>2, <1>4, <3>1
  <2> QED
    BY <1>3, <2>1, <2>2, <2>3
<1> QED
  BY <1>1, <1>5 DEF CanTypeOK

(***************************************************************************)
(* The verdicts on a tune.  A place on an axis that rises is between two   *)
(* neighbours, whose weights are at least one half for the nearer; so the  *)
(* nearest of the four cells around weighs at least a quarter.             *)
(***************************************************************************)

\* Some numbers up to n have a least one, and a greatest one.
LEMMA LeastOf ==
  ASSUME NEW n \in Nat, NEW s \in SUBSET (1..n), s # {}
  PROVE  \E i \in s : \A j \in s : i <= j
<1> DEFINE N == 1..n
           below(i) == {j \in s : j < i}
           T == {below(i) : i \in s}
<1>1. IsWellFoundedOn(StrictSubsetOrdering(N), FiniteSubsetsOf(N))
  BY FS_StrictSubsetOrderingWellFounded
<1>2. T \subseteq FiniteSubsetsOf(N) /\ T # {}
  <2>1. IsFiniteSet(N)
    BY FS_Interval
  <2>2. T \subseteq SUBSET N /\ T # {}
    OBVIOUS
  <2> HIDE DEF N, T
  <2> QED  BY <2>1, <2>2, FS_FiniteSubsetsOfFinite
<1>3. PICK t \in T : \A u \in T : <<u, t>> \notin StrictSubsetOrdering(N)
  <2> HIDE DEF StrictSubsetOrdering, T
  <2> QED  BY <1>1, <1>2, WFMin
<1>4. PICK i \in s : t = below(i)
  BY <1>3
<1>5. ASSUME NEW j \in s, j < i PROVE FALSE
  <2>1. s \subseteq Int /\ i \in Int /\ j \in Int
    OBVIOUS
  <2>2. below(j) \subseteq below(i) /\ j \in below(i) /\ j \notin below(j)
    <3>1. \A k \in s : k < j => k < i
      BY <1>5, <2>1
    <3>2. ~(j < j)
      BY <2>1
    <3> QED  BY <1>5, <3>1, <3>2, Zenon
  <2>3. below(j) \in T /\ below(i) \in SUBSET N
    OBVIOUS
  <2> HIDE DEF below, T, N
  <2>4. <<below(j), below(i)>> \in StrictSubsetOrdering(N)
    BY <2>2, <2>3 DEF StrictSubsetOrdering
  <2> QED  BY <1>3, <1>4, <2>3, <2>4
<1> QED  BY <1>5

LEMMA GreatestOf ==
  ASSUME NEW n \in Nat, NEW s \in SUBSET (1..n), s # {}
  PROVE  \E i \in s : \A j \in s : i >= j
<1> DEFINE back == {n + 1 - i : i \in s}
<1>1. back \in SUBSET (1..n) /\ back # {}
  <2>1. \A i \in s : n + 1 - i \in 1..n
    OBVIOUS
  <2> QED  BY <2>1, Zenon
<1>2. PICK k \in back : \A j \in back : k <= j
  <2> HIDE DEF back
  <2> QED  BY <1>1, LeastOf
<1>3. PICK i \in s : k = n + 1 - i
  BY <1>2
<1>4. \A j \in s : n + 1 - i <= n + 1 - j
  BY <1>2, <1>3
<1>5. \A j \in s : j \in 1..n
  OBVIOUS
<1> QED  BY <1>3, <1>4, <1>5

\* What is chosen as the least, or as the greatest, is.
LEMMA ChosenLeast ==
  ASSUME NEW n \in Nat, NEW s \in SUBSET (1..n), s # {}
  PROVE  LET k == CHOOSE i \in s : \A j \in s : i <= j IN k \in s /\ \A j \in s : k <= j
BY LeastOf

LEMMA ChosenGreatest ==
  ASSUME NEW n \in Nat, NEW s \in SUBSET (1..n), s # {}
  PROVE  LET k == CHOOSE i \in s : \A j \in s : i >= j IN k \in s /\ \A j \in s : k >= j
BY GreatestOf

\* An axis that rises from each value to the next rises.
LEMMA RisesFar ==
  ASSUME NEW axis \in Seq(Int), Rising(axis), NEW i \in 1..Len(axis), NEW j \in 1..Len(axis), i < j
  PROVE  axis[i] < axis[j]
<1> DEFINE n == Len(axis)
           off == {k \in 1..n : i < k /\ ~(axis[i] < axis[k])}
<1>1. n \in Nat /\ \A k \in 1..n : axis[k] \in Int
  OBVIOUS
<1>2. \A k \in 1..n - 1 : axis[k] < axis[k + 1]
  BY DEF Rising
<1> HIDE DEF n
<1>3. ASSUME off # {} PROVE FALSE
  <2>1. PICK k \in off : \A l \in off : k <= l
    <3>1. off \in SUBSET (1..n)
      OBVIOUS
    <3> HIDE DEF off
    <3> QED  BY <1>1, <1>3, <3>1, LeastOf
  <2>2. k \in 1..n /\ i < k /\ ~(axis[i] < axis[k]) /\ i \in 1..n
    BY DEF n
  <2>3. k - 1 \in 1..n - 1 /\ k - 1 >= i /\ k - 1 \in 1..n /\ (k - 1) + 1 = k
    BY <1>1, <2>2
  <2>4. axis[k - 1] < axis[k]
    BY <1>2, <2>3
  <2>5. k - 1 \notin off
    BY <2>1, <2>2, <1>1
  <2>6. k - 1 = i \/ axis[i] < axis[k - 1]
    BY <2>3, <2>5, <2>2
  <2> QED  BY <1>1, <2>2, <2>3, <2>4, <2>6
<1> QED  BY <1>3 DEF n

\* The place of a target on an axis: between two neighbours, or at one value of the axis.
BracketOK(axis, b) ==
  /\ b.lo \in 1..Len(axis) /\ b.hi \in 1..Len(axis) /\ b.hi \in {b.lo, b.lo + 1}
  /\ b.den \in Nat \ {0} /\ b.num \in 0..b.den /\ (b.hi = b.lo => b.num = 0)
Nearest(axis, target, i) ==
  \A j \in 1..Len(axis) : Magnitude(axis[i] - target) <= Magnitude(axis[j] - target)

\* On an axis that rises, the target is in its bracket or beyond the end that the bracket is.
LEMMA BracketIs ==
  ASSUME NEW axis \in Seq(Int), Len(axis) > 1, Rising(axis), NEW target \in Int
  PROVE  LET b == Bracket(axis, target) IN
         /\ BracketOK(axis, b)
         /\ \/ b.lo = 1 /\ b.hi = 1 /\ target <= axis[1]
            \/ b.lo = Len(axis) /\ b.hi = Len(axis) /\ target >= axis[Len(axis)]
            \/ /\ b.hi = b.lo + 1 /\ axis[b.lo] <= target /\ target <= axis[b.hi]
               /\ b.num = target - axis[b.lo] /\ b.den = axis[b.hi] - axis[b.lo]
<1> DEFINE n == Len(axis)
           inside == {i \in 1..n - 1 : axis[i] <= target /\ target <= axis[i + 1]}
           first == CHOOSE i \in inside : \A j \in inside : i <= j
           span(i) == IF axis[i] < axis[i + 1] THEN axis[i + 1] - axis[i] ELSE 1
           b == Bracket(axis, target)
<1>1. n \in Nat /\ n > 1 /\ \A k \in 1..n : axis[k] \in Int
  OBVIOUS
<1>2. \A k \in 1..n - 1 : axis[k] < axis[k + 1]
  BY DEF Rising
<1>3. b = IF target <= axis[1] THEN [lo |-> 1, hi |-> 1, num |-> 0, den |-> 1]
          ELSE IF target >= axis[n] \/ inside = {} THEN [lo |-> n, hi |-> n, num |-> 0, den |-> 1]
          ELSE [lo |-> first, hi |-> first + 1, num |-> target - axis[first], den |-> span(first)]
  BY Zenon DEF Bracket
<1> SUFFICES /\ BracketOK(axis, b)
             /\ \/ b.lo = 1 /\ b.hi = 1 /\ target <= axis[1]
                \/ b.lo = n /\ b.hi = n /\ target >= axis[n]
                \/ /\ b.hi = b.lo + 1 /\ axis[b.lo] <= target /\ target <= axis[b.hi]
                   /\ b.num = target - axis[b.lo] /\ b.den = axis[b.hi] - axis[b.lo]
  OBVIOUS
<1>4. CASE target <= axis[1]
  <2>1. b.lo = 1 /\ b.hi = 1 /\ b.num = 0 /\ b.den = 1
    BY <1>3, <1>4
  <2> HIDE DEF b
  <2> QED  BY <1>1, <1>4, <2>1 DEF BracketOK
<1>5. CASE target > axis[1] /\ target >= axis[n]
  <2>1. ~(target <= axis[1])
    BY <1>1, <1>5
  <2>2. b.lo = n /\ b.hi = n /\ b.num = 0 /\ b.den = 1
    BY <1>3, <1>5, <2>1
  <2> HIDE DEF b
  <2> QED  BY <1>1, <1>5, <2>2 DEF BracketOK
<1>6. CASE target > axis[1] /\ target < axis[n]
  <2> DEFINE under == {i \in 1..n : axis[i] <= target}
  <2>1. PICK i \in under : \A j \in under : i >= j
    <3>1. under \in SUBSET (1..n) /\ 1 \in under
      BY <1>1, <1>6
    <3> HIDE DEF under
    <3> QED  BY <1>1, <3>1, GreatestOf
  <2>2. i \in 1..n /\ axis[i] <= target /\ i # n
    BY <1>1, <1>6, <2>1
  <2>3. i + 1 \in 1..n /\ i + 1 > i /\ i \in 1..n - 1
    BY <1>1, <2>2
  <2>4. target < axis[i + 1]
    BY <1>1, <2>1, <2>3
  <2>5. i \in inside
    BY <1>1, <2>2, <2>3, <2>4
  <2>6. inside \in SUBSET (1..n) /\ inside # {}
    <3>1. inside \subseteq 1..n - 1 /\ 1..n - 1 \subseteq 1..n
      BY <1>1
    <3> HIDE DEF inside
    <3> QED  BY <2>5, <3>1
  <2>7. first \in inside
    <3> HIDE DEF inside
    <3> QED  BY <1>1, <2>6, LeastOf, ChosenLeast
  <2>8. /\ first \in 1..n - 1 /\ first + 1 \in 1..n /\ first \in 1..n
        /\ axis[first] <= target /\ target <= axis[first + 1]
    <3> HIDE DEF first
    <3> QED  BY <1>1, <2>7
  <2>9. axis[first] < axis[first + 1] /\ axis[first] \in Int /\ axis[first + 1] \in Int
    BY <1>1, <1>2, <2>8
  <2>10. ~(target <= axis[1]) /\ ~(target >= axis[n])
    BY <1>1, <1>6
  <2>11. b = [lo |-> first, hi |-> first + 1, num |-> target - axis[first], den |-> span(first)]
    BY <1>3, <2>6, <2>10, Zenon
  <2>12. span(first) = axis[first + 1] - axis[first]
    BY <2>9
  <2>13. /\ b.lo = first /\ b.hi = first + 1 /\ b.num = target - axis[first]
         /\ b.den = axis[first + 1] - axis[first]
    <3> HIDE DEF b, first, span, n
    <3> QED  BY <2>11, <2>12
  <2> HIDE DEF b, first, n
  <2>14. b.num \in Int /\ b.den \in Int /\ b.num >= 0 /\ b.num <= b.den /\ b.den > 0 /\ b.hi # b.lo
    BY <2>8, <2>9, <2>13, SMTT(30)
  <2> QED  BY <2>8, <2>13, <2>14, SMTT(30) DEF BracketOK, n
<1>7. axis[1] \in Int /\ axis[n] \in Int
  BY <1>1
<1> QED  BY <1>4, <1>5, <1>6, <1>7

\* The values nearest to the target are those of the bracket, by the half of it that it is in.
LEMMA NearestIs ==
  ASSUME NEW axis \in Seq(Int), Len(axis) > 1, Rising(axis), NEW target \in Int
  PROVE  LET b == Bracket(axis, target) IN
         /\ \E i \in 1..Len(axis) : Nearest(axis, target, i)
         /\ \A i \in 1..Len(axis) : Nearest(axis, target, i) =>
              \/ i = b.lo /\ 2 * b.num <= b.den
              \/ i = b.hi /\ 2 * b.num >= b.den
<1> DEFINE b == Bracket(axis, target)
           n == Len(axis)
           d(i) == Magnitude(axis[i] - target)
<1>1. n \in Nat /\ n > 1 /\ \A k \in 1..n : axis[k] \in Int
  OBVIOUS
<1>2. \A i, j \in 1..n : i < j => axis[i] < axis[j]
  BY RisesFar
<1>3. /\ BracketOK(axis, b)
      /\ \/ b.lo = 1 /\ b.hi = 1 /\ target <= axis[1]
         \/ b.lo = n /\ b.hi = n /\ target >= axis[n]
         \/ /\ b.hi = b.lo + 1 /\ axis[b.lo] <= target /\ target <= axis[b.hi]
            /\ b.num = target - axis[b.lo] /\ b.den = axis[b.hi] - axis[b.lo]
  BY BracketIs
<1>4. /\ b.lo \in 1..n /\ b.hi \in 1..n /\ b.den \in Nat \ {0} /\ b.num \in 0..b.den
      /\ (b.hi = b.lo => b.num = 0) /\ b.hi \in {b.lo, b.lo + 1}
  BY <1>3 DEF BracketOK
<1> HIDE DEF b, n
<1>0. /\ b.lo \in Int /\ b.hi \in Int /\ b.den \in Int /\ b.num \in Int /\ b.den > 0
      /\ axis[b.lo] \in Int /\ axis[b.hi] \in Int
  BY <1>1, <1>4
<1>5. ASSUME NEW i \in 1..n, i < b.lo PROVE d(b.lo) < d(i)
  <2>1. axis[i] < axis[b.lo] /\ axis[b.lo] <= target
    BY <1>1, <1>2, <1>3, <1>4, <1>5
  <2>2. axis[i] \in Int
    BY <1>1
  <2> QED  BY <1>0, <2>1, <2>2, SMTT(30) DEF Magnitude
<1>6. ASSUME NEW i \in 1..n, i > b.hi PROVE d(b.hi) < d(i)
  <2>1. axis[b.hi] < axis[i] /\ axis[b.hi] >= target
    BY <1>1, <1>2, <1>3, <1>4, <1>6
  <2>2. axis[i] \in Int
    BY <1>1
  <2> QED  BY <1>0, <2>1, <2>2, SMTT(30) DEF Magnitude
<1>7. \A i \in 1..n : i < b.lo \/ i > b.hi \/ i = b.lo \/ i = b.hi
  BY <1>0, <1>1, <1>4
<1>8. b.hi # b.lo => d(b.lo) = b.num /\ d(b.hi) = b.den - b.num
  <2> SUFFICES ASSUME b.hi # b.lo PROVE d(b.lo) = b.num /\ d(b.hi) = b.den - b.num
    OBVIOUS
  <2>1. /\ axis[b.lo] <= target /\ target <= axis[b.hi]
        /\ b.num = target - axis[b.lo] /\ b.den = axis[b.hi] - axis[b.lo]
    BY <1>3
  <2>2. d(b.lo) = target - axis[b.lo] /\ d(b.hi) = axis[b.hi] - target
    <3>1. \A u \in Int : u <= target => Magnitude(u - target) = target - u
      BY DEF Magnitude
    <3>2. \A u \in Int : target <= u => Magnitude(u - target) = u - target
      BY DEF Magnitude
    <3> QED  BY <1>0, <2>1, <3>1, <3>2
  <2>3. axis[b.hi] - target = (axis[b.hi] - axis[b.lo]) - (target - axis[b.lo])
    BY <1>0
  <2> HIDE DEF d
  <2> QED  BY <2>1, <2>2, <2>3
<1>9. \A i \in 1..n : d(i) \in Int
  BY <1>1 DEF Magnitude
<1>10. \E i \in {b.lo, b.hi} : d(i) <= d(b.lo) /\ d(i) <= d(b.hi)
  BY <1>4, <1>9, SMTT(30)
<1>11. \E i \in 1..n : \A j \in 1..n : d(i) <= d(j)
  <2>1. PICK i \in {b.lo, b.hi} : d(i) <= d(b.lo) /\ d(i) <= d(b.hi)
    BY <1>10
  <2> HIDE DEF d
  <2>2. \A j \in 1..n : d(i) <= d(j)
    BY <1>4, <1>5, <1>6, <1>7, <1>9, <2>1, SMTT(30)
  <2> QED  BY <1>4, <2>1, <2>2
<1>12. ASSUME NEW i \in 1..n, \A j \in 1..n : d(i) <= d(j)
       PROVE  (i = b.lo /\ 2 * b.num <= b.den) \/ (i = b.hi /\ 2 * b.num >= b.den)
  <2>1. d(i) <= d(b.lo) /\ d(i) <= d(b.hi) /\ d(i) \in Int /\ d(b.lo) \in Int /\ d(b.hi) \in Int
    BY <1>4, <1>9, <1>12
  <2>2. i \in {b.lo, b.hi}
    <3> HIDE DEF d
    <3> QED  BY <1>5, <1>6, <1>7, <2>1
  <2> HIDE DEF d
  <2>3. CASE b.hi = b.lo
    BY <1>0, <1>4, <2>2, <2>3
  <2>4. CASE b.hi # b.lo
    <3>1. d(b.lo) = b.num /\ d(b.hi) = b.den - b.num
      BY <1>8, <2>4
    <3>2. CASE i = b.lo
      <4>1. b.num <= b.den - b.num
        BY <2>1, <3>1, <3>2
      <4> QED  BY <1>0, <3>2, <4>1
    <3>3. CASE i = b.hi
      <4>1. b.den - b.num <= b.num
        BY <2>1, <3>1, <3>3
      <4> QED  BY <1>0, <3>3, <4>1
    <3> QED  BY <2>2, <3>2, <3>3
  <2> QED  BY <2>3, <2>4
<1> QED  BY <1>11, <1>12 DEF Nearest, n, b

LEMMA ProductUp ==
  ASSUME NEW a \in Int, NEW b \in Int, NEW c \in Int, a <= b, 0 <= c
  PROVE  a * c <= b * c /\ c * a <= c * b
OBVIOUS

\* What lies between two values on the way is between what bounds both.
LEMMA OnTheWay ==
  ASSUME NEW least \in Int, NEW most \in Int, NEW u \in Int, NEW v \in Int, NEW d \in Int, NEW p \in Int,
         least <= u, u <= most, least <= v, v <= most, 0 <= p, p <= d
  PROVE  least * d <= u * d + (v - u) * p /\ u * d + (v - u) * p <= most * d
<1>1. u * d + (v - u) * p = u * (d - p) + v * p
  OBVIOUS
<1>2. least * (d - p) <= u * (d - p) /\ u * (d - p) <= most * (d - p)
  BY ProductUp
<1>3. least * p <= v * p /\ v * p <= most * p
  BY ProductUp
<1>4. least * d = least * (d - p) + least * p /\ most * d = most * (d - p) + most * p
  OBVIOUS
<1>5. /\ u * (d - p) \in Int /\ v * p \in Int /\ least * (d - p) \in Int /\ most * (d - p) \in Int
      /\ least * p \in Int /\ most * p \in Int
  OBVIOUS
<1> QED  BY <1>1, <1>2, <1>3, <1>4, <1>5

\* The nearer of the two weighs at least half.
LEMMA NearerWeighs ==
  \A u \in Int, v \in Int, d \in Int, p \in Int, near \in Int :
    0 <= p /\ p <= d /\ ((near = u /\ 2 * p <= d) \/ (near = v /\ 2 * p >= d))
      => \E w \in Int, other \in {u, v} :
           w <= d /\ 2 * w >= d /\ u * d + (v - u) * p = near * w + other * (d - w)
<1> SUFFICES ASSUME NEW u \in Int, NEW v \in Int, NEW d \in Int, NEW p \in Int, NEW near \in Int,
                    0 <= p, p <= d, (near = u /\ 2 * p <= d) \/ (near = v /\ 2 * p >= d)
             PROVE  \E w \in Int, other \in {u, v} :
                      w <= d /\ 2 * w >= d /\ u * d + (v - u) * p = near * w + other * (d - w)
  OBVIOUS
<1>1. CASE near = u /\ 2 * p <= d
  <2>1. u * d + (v - u) * p = near * (d - p) + v * (d - (d - p)) /\ d - p \in Int
    BY <1>1
  <2>2. d - p <= d /\ 2 * (d - p) >= d
    BY <1>1
  <2> QED  BY <2>1, <2>2
<1>2. CASE near = v /\ 2 * p >= d
  <2>1. u * d + (v - u) * p = near * p + u * (d - p)
    BY <1>2
  <2> QED  BY <1>2, <2>1
<1> QED  BY <1>1, <1>2

\* Two factors of at least half make at least a quarter.
LEMMA Quarter ==
  ASSUME NEW x \in Int, NEW y \in Int, NEW v \in Int, NEW w \in Int, 0 <= x, 0 <= y,
         2 * v >= x, 2 * w >= y
  PROVE  4 * (v * w) >= x * y
<1>1. x * y <= (2 * v) * y
  BY ProductUp
<1>2. (2 * v) * y <= (2 * v) * (2 * w)
  BY ProductUp
<1>3. (2 * v) * (2 * w) = 4 * (v * w)
  OBVIOUS
<1>4. x * y \in Int /\ (2 * v) * y \in Int /\ v * w \in Int
  OBVIOUS
<1> QED  BY <1>1, <1>2, <1>3, <1>4

\* A difference between values of an interval, times a weight.
LEMMA Spread ==
  ASSUME NEW least \in Int, NEW most \in Int, NEW a \in Int, NEW b \in Int, NEW w \in Int,
         least <= a, a <= most, least <= b, b <= most, 0 <= w
  PROVE  /\ -((most - least) * w) <= (a - b) * w /\ (a - b) * w <= (most - least) * w
<1>1. (a - b) * w <= (most - least) * w
  <2>1. a - b <= most - least /\ a - b \in Int /\ most - least \in Int
    OBVIOUS
  <2> QED  BY <2>1, ProductUp
<1>2. (least - most) * w <= (a - b) * w
  <2>1. least - most <= a - b /\ a - b \in Int /\ least - most \in Int
    OBVIOUS
  <2> QED  BY <2>1, ProductUp
<1>3. (least - most) * w = -((most - least) * w)
  OBVIOUS
<1> QED  BY <1>1, <1>2, <1>3

\* Of four corners, the nearest one weighs at least a quarter.
LEMMA Corner ==
  \A least, most, cell, other, x, y, v, w, far \in Int :
    (/\ least <= cell /\ cell <= most /\ least <= other /\ other <= most
     /\ least * x <= far /\ far <= most * x /\ 0 <= x /\ 0 <= y
     /\ v <= x /\ 2 * v >= x /\ w <= y /\ 2 * w >= y)
      => 4 * Magnitude(((cell * v + other * (x - v)) * w + far * (y - w)) - cell * (x * y))
           <= 3 * (most - least) * (x * y)
<1> TAKE least, most, cell, other, x, y, v, w, far \in Int
<1> HAVE /\ least <= cell /\ cell <= most /\ least <= other /\ other <= most
         /\ least * x <= far /\ far <= most * x /\ 0 <= x /\ 0 <= y
         /\ v <= x /\ 2 * v >= x /\ w <= y /\ 2 * w >= y
<1> DEFINE D == most - least
           A == (other - cell) * (x - v)
           B == far - cell * x
           num == (cell * v + other * (x - v)) * w + far * (y - w)
<1>1. -(D * (x - v)) <= A /\ A <= D * (x - v)
  BY Spread
<1>2. -(D * x) <= B /\ B <= D * x
  <2>1. least * x <= cell * x /\ cell * x <= most * x
    BY ProductUp
  <2>2. D * x = most * x - least * x
    OBVIOUS
  <2>3. cell * x \in Int /\ least * x \in Int /\ most * x \in Int
    OBVIOUS
  <2> QED  BY <2>1, <2>2, <2>3
<1>3. num - cell * (x * y) = A * w + B * (y - w)
  OBVIOUS
<1>4. 0 <= w /\ 0 <= y - w /\ y - w \in Int /\ D \in Int /\ A \in Int /\ B \in Int
  OBVIOUS
<1>5. D * (x - v) \in Int /\ D * x \in Int
  OBVIOUS
<1> HIDE DEF A, B, num
<1>6. /\ (-(D * (x - v))) * w <= A * w /\ A * w <= (D * (x - v)) * w
      /\ (-(D * x)) * (y - w) <= B * (y - w) /\ B * (y - w) <= (D * x) * (y - w)
  <2> HIDE DEF D
  <2> QED  BY <1>1, <1>2, <1>4, <1>5, ProductUp
<1>7. (D * (x - v)) * w + (D * x) * (y - w) = D * (x * y) - D * (v * w)
  <2> HIDE DEF D
  <2> QED  BY <1>4
<1>8. (-(D * (x - v))) * w + (-(D * x)) * (y - w) = -(D * (x * y) - D * (v * w))
  <2> HIDE DEF D
  <2> QED  BY <1>4
<1>9. D * (x * y) <= 4 * (D * (v * w))
  <2>1. x * y <= 4 * (v * w) /\ x * y \in Int /\ v * w \in Int
    BY Quarter
  <2>2. 0 <= D
    OBVIOUS
  <2> HIDE DEF D
  <2>3. D * (x * y) <= D * (4 * (v * w))
    BY <1>4, <2>1, <2>2, ProductUp
  <2>4. D * (4 * (v * w)) = 4 * (D * (v * w))
    BY <1>4
  <2> QED  BY <2>3, <2>4
<1>10. /\ A * w \in Int /\ B * (y - w) \in Int /\ (D * (x - v)) * w \in Int /\ (D * x) * (y - w) \in Int
       /\ D * (x * y) \in Int /\ D * (v * w) \in Int
       /\ (-(D * (x - v))) * w \in Int /\ (-(D * x)) * (y - w) \in Int
  BY <1>4, <1>5
<1> HIDE DEF D
<1>11. Magnitude(A * w + B * (y - w)) <= D * (x * y) - D * (v * w)
  BY <1>6, <1>7, <1>8, <1>10 DEF Magnitude
<1>12. Magnitude(A * w + B * (y - w)) \in Int
  BY <1>10 DEF Magnitude
<1>13. 4 * Magnitude(A * w + B * (y - w)) <= 3 * (D * (x * y))
  BY <1>9, <1>10, <1>11, <1>12
<1>14. 3 * D * (x * y) = 3 * (D * (x * y))
  BY <1>4
<1> QED  BY <1>3, <1>13, <1>14 DEF num, D

\* What is given is worked out.
LEMMA SampleIs ==
  ASSUME NEW m, NEW x, NEW y
  PROVE  Sample(m, x, y) = Bilinear(m, Bracket(m.x, x), Bracket(m.y, y))
<1> DEFINE b == <<Bracket(m.x, x), Bracket(m.y, y)>>
<1>1. Sample(m, x, y) = Bilinear(m, b[1], b[2])
  BY Zenon DEF Sample, Given
<1> QED  BY <1>1

\* The least and the most of four values.
LEMMA LeastAndMost ==
  ASSUME NEW a \in Int, NEW b \in Int, NEW c \in Int, NEW d \in Int
  PROVE  \E least, most \in {a, b, c, d} : \A v \in {a, b, c, d} : least <= v /\ v <= most
<1>1. \E least \in {a, b, c, d} : \A v \in {a, b, c, d} : least <= v
  OBVIOUS
<1>2. \E most \in {a, b, c, d} : \A v \in {a, b, c, d} : v <= most
  OBVIOUS
<1> QED  BY <1>1, <1>2

LEMMA NearHolds ==
  ASSUME NEW m \in TuneMap, Len(m.x) > 1, Len(m.y) > 1, Rising(m.x), Rising(m.y),
         NEW x \in Int, NEW y \in Int
  PROVE  NearCell(m, x, y)
<1> DEFINE bx == Bracket(m.x, x)
           by == Bracket(m.y, y)
           at(i, j) == m.cells[j][i]
           along(j) == at(bx.lo, j) * bx.den + (at(bx.hi, j) - at(bx.lo, j)) * bx.num
           value == along(by.lo) * by.den + (along(by.hi) - along(by.lo)) * by.num
           s == Sample(m, x, y)
           nx == Len(m.x)
           ny == Len(m.y)
           right == IF bx.lo < nx THEN bx.lo + 1 ELSE bx.lo
           down == IF by.lo < ny THEN by.lo + 1 ELSE by.lo
           around == {at(i, j) : i \in bx.lo..right, j \in by.lo..down}
           kx == NearestTo(m.x, x)
           ky == NearestTo(m.y, y)
           cell == at(kx, ky)
<1>1. s = [num |-> value, den |-> bx.den * by.den, ix |-> bx.lo, iy |-> by.lo]
  BY SampleIs, Zenon DEF Bilinear
<1>2. /\ m.x \in Seq(Int) /\ m.y \in Seq(Int) /\ m.cells \in Seq(Seq(Int)) /\ Len(m.cells) = ny
      /\ \A j \in DOMAIN m.cells : Len(m.cells[j]) = nx
  BY DEF TuneMap
<1>3. nx \in Nat /\ ny \in Nat /\ DOMAIN m.x = 1..nx /\ DOMAIN m.y = 1..ny
  BY <1>2
<1>4. \A i \in 1..nx, j \in 1..ny : at(i, j) \in Int
  <2>1. \A j \in 1..ny : j \in DOMAIN m.cells /\ m.cells[j] \in Seq(Int)
    BY <1>2, <1>3
  <2>2. \A j \in 1..ny : Len(m.cells[j]) = nx
    BY <1>2, <2>1
  <2> QED  BY <2>1, <2>2
<1>5. BracketOK(m.x, bx) /\ BracketOK(m.y, by)
  BY <1>2, BracketIs
<1> HIDE DEF bx, by
<1>6. /\ bx.lo \in 1..nx /\ bx.hi \in 1..nx /\ bx.hi \in {bx.lo, bx.lo + 1}
      /\ by.lo \in 1..ny /\ by.hi \in 1..ny /\ by.hi \in {by.lo, by.lo + 1}
  BY <1>5 DEF BracketOK
<1>7. /\ bx.den \in Int /\ bx.den > 0 /\ bx.num \in Int /\ 0 <= bx.num /\ bx.num <= bx.den
      /\ by.den \in Int /\ by.den > 0 /\ by.num \in Int /\ 0 <= by.num /\ by.num <= by.den
  BY <1>5 DEF BracketOK
<1>8. /\ kx \in 1..nx /\ ky \in 1..ny
      /\ ((kx = bx.lo /\ 2 * bx.num <= bx.den) \/ (kx = bx.hi /\ 2 * bx.num >= bx.den))
      /\ ((ky = by.lo /\ 2 * by.num <= by.den) \/ (ky = by.hi /\ 2 * by.num >= by.den))
  <2>1. kx \in 1..nx /\ Nearest(m.x, x, kx)
    <3>1. \E i \in 1..nx : Nearest(m.x, x, i)
      BY <1>2, NearestIs
    <3> QED  BY <1>3, <3>1, Zenon DEF Nearest, NearestTo
  <2>2. ky \in 1..ny /\ Nearest(m.y, y, ky)
    <3>1. \E i \in 1..ny : Nearest(m.y, y, i)
      BY <1>2, NearestIs
    <3> QED  BY <1>3, <3>1, Zenon DEF Nearest, NearestTo
  <2> HIDE DEF kx, ky
  <2>3. (kx = bx.lo /\ 2 * bx.num <= bx.den) \/ (kx = bx.hi /\ 2 * bx.num >= bx.den)
    BY <1>2, <2>1, NearestIs DEF bx
  <2>4. (ky = by.lo /\ 2 * by.num <= by.den) \/ (ky = by.hi /\ 2 * by.num >= by.den)
    BY <1>2, <2>2, NearestIs DEF by
  <2> QED  BY <2>1, <2>2, <2>3, <2>4
<1> HIDE DEF kx, ky
<1>9. /\ right \in 1..nx /\ down \in 1..ny /\ right \in {bx.lo, bx.lo + 1} /\ down \in {by.lo, by.lo + 1}
      /\ bx.hi \in {bx.lo, right} /\ by.hi \in {by.lo, down}
  BY <1>3, <1>6, SMTT(30)
<1>10. bx.lo..right = {bx.lo, right} /\ by.lo..down = {by.lo, down}
  <2> HIDE DEF right, down
  <2>1. bx.lo \in Int /\ by.lo \in Int
    BY <1>3, <1>6
  <2> QED  BY <1>9, <2>1
<1> HIDE DEF right, down, nx, ny, at
<1>11. around = {at(bx.lo, by.lo), at(bx.lo, down), at(right, by.lo), at(right, down)}
  BY <1>10
<1>12. /\ at(bx.lo, by.lo) \in Int /\ at(bx.lo, down) \in Int
       /\ at(right, by.lo) \in Int /\ at(right, down) \in Int
  BY <1>4, <1>6, <1>9
<1>13. PICK least \in around, most \in around : \A c \in around : least <= c /\ c <= most
  <2> HIDE DEF around
  <2> QED  BY <1>11, <1>12, LeastAndMost
<1>14. least \in Int /\ most \in Int /\ \A c \in around : c \in Int
  <2>1. \A c \in around : c \in Int
    <3> HIDE DEF around
    <3> QED  BY <1>11, <1>12
  <2> HIDE DEF around
  <2> QED  BY <1>13, <2>1
<1>15. \A i \in {bx.lo, bx.hi}, j \in {by.lo, by.hi} : at(i, j) \in around
  BY <1>9, <1>10
<1> HIDE DEF around
<1>16. \A i \in {bx.lo, bx.hi}, j \in {by.lo, by.hi} :
         at(i, j) \in Int /\ least <= at(i, j) /\ at(i, j) <= most
  BY <1>13, <1>14, <1>15
<1>17. \A j \in {by.lo, by.hi} :
         along(j) \in Int /\ least * bx.den <= along(j) /\ along(j) <= most * bx.den
  <2> SUFFICES ASSUME NEW j \in {by.lo, by.hi}
               PROVE  along(j) \in Int /\ least * bx.den <= along(j) /\ along(j) <= most * bx.den
    OBVIOUS
  <2> DEFINE u == at(bx.lo, j)
             v == at(bx.hi, j)
  <2>1. u \in Int /\ v \in Int /\ least <= u /\ u <= most /\ least <= v /\ v <= most
    BY <1>16
  <2> HIDE DEF u, v
  <2>2. /\ least * bx.den <= u * bx.den + (v - u) * bx.num
        /\ u * bx.den + (v - u) * bx.num <= most * bx.den
    BY ONLY <1>7, <1>14, <2>1, OnTheWay
  <2>3. u * bx.den + (v - u) * bx.num \in Int
    BY ONLY <1>7, <2>1
  <2> QED  BY <2>2, <2>3 DEF u, v
<1> HIDE DEF along
<1>18. /\ least * bx.den \in Int /\ most * bx.den \in Int
       /\ least * (bx.den * by.den) <= value /\ value <= most * (bx.den * by.den)
  <2>1. least * bx.den \in Int /\ most * bx.den \in Int
    BY <1>7, <1>14
  <2>2. (least * bx.den) * by.den <= value /\ value <= (most * bx.den) * by.den
    BY <1>7, <1>17, <2>1, OnTheWay
  <2>3. /\ (least * bx.den) * by.den = least * (bx.den * by.den)
        /\ (most * bx.den) * by.den = most * (bx.den * by.den)
    BY <1>7, <1>14
  <2> QED  BY <2>1, <2>2, <2>3
<1>19. 4 * Magnitude(value - cell * (bx.den * by.den)) <= 3 * (most - least) * (bx.den * by.den)
  <2>1. PICK w \in Int, far \in {along(by.lo), along(by.hi)} :
          /\ w <= by.den /\ 2 * w >= by.den
          /\ value = along(ky) * w + far * (by.den - w)
    <3>1. along(ky) \in {along(by.lo), along(by.hi)}
      BY <1>8
    <3>2. \/ along(ky) = along(by.lo) /\ 2 * by.num <= by.den
          \/ along(ky) = along(by.hi) /\ 2 * by.num >= by.den
      BY <1>8
    <3>3. along(by.lo) \in Int /\ along(by.hi) \in Int
      BY <1>17
    <3> DEFINE a == along(by.lo)
               b == along(by.hi)
               near == along(ky)
               d == by.den
               p == by.num
    <3>4. /\ a \in Int /\ b \in Int /\ d \in Int /\ p \in Int /\ 0 <= p /\ p <= d
          /\ near \in Int /\ ((near = a /\ 2 * p <= d) \/ (near = b /\ 2 * p >= d))
      <4>1. near \in Int
        BY <3>1, <3>3
      <4> QED  BY <1>7, <3>2, <3>3, <4>1
    <3> HIDE DEF a, b, near, d, p
    <3>5. \E w \in Int, far \in {a, b} :
            w <= d /\ 2 * w >= d /\ a * d + (b - a) * p = near * w + far * (d - w)
      BY ONLY <3>4, NearerWeighs
    <3> QED  BY <3>5, Zenon DEF a, b, near, d, p
  <2>2. PICK v \in Int, other \in {at(bx.lo, ky), at(bx.hi, ky)} :
          /\ v <= bx.den /\ 2 * v >= bx.den
          /\ along(ky) = cell * v + other * (bx.den - v)
    <3>1. at(kx, ky) \in {at(bx.lo, ky), at(bx.hi, ky)}
      BY <1>8
    <3>2. \/ at(kx, ky) = at(bx.lo, ky) /\ 2 * bx.num <= bx.den
          \/ at(kx, ky) = at(bx.hi, ky) /\ 2 * bx.num >= bx.den
      BY <1>8
    <3>3. at(bx.lo, ky) \in Int /\ at(bx.hi, ky) \in Int
      BY <1>8, <1>16
    <3> DEFINE a == at(bx.lo, ky)
               b == at(bx.hi, ky)
               near == at(kx, ky)
               d == bx.den
               p == bx.num
    <3>4. /\ a \in Int /\ b \in Int /\ d \in Int /\ p \in Int /\ 0 <= p /\ p <= d
          /\ near \in Int /\ ((near = a /\ 2 * p <= d) \/ (near = b /\ 2 * p >= d))
      <4>1. near \in Int
        BY <3>1, <3>3
      <4> QED  BY <1>7, <3>2, <3>3, <4>1
    <3> HIDE DEF a, b, near, d, p
    <3>5. \E v \in Int, other \in {a, b} :
            v <= d /\ 2 * v >= d /\ a * d + (b - a) * p = near * v + other * (d - v)
      BY ONLY <3>4, NearerWeighs
    <3> QED  BY <3>5, Zenon DEF along, a, b, near, d, p
  <2>3. cell \in Int /\ other \in Int /\ least <= cell /\ cell <= most /\ least <= other /\ other <= most
    BY <1>8, <1>16, <2>2
  <2>4. far \in Int /\ least * bx.den <= far /\ far <= most * bx.den
    BY <1>17, <2>1
  <2> HIDE DEF cell, value
  <2>5. value = (cell * v + other * (bx.den - v)) * w + far * (by.den - w)
    BY <2>1, <2>2
  <2> DEFINE p == bx.den
             q == by.den
  <2>6. /\ p \in Int /\ q \in Int /\ 0 <= p /\ 0 <= q /\ v \in Int /\ w \in Int
        /\ v <= p /\ 2 * v >= p /\ w <= q /\ 2 * w >= q
        /\ least * p <= far /\ far <= most * p
    BY <1>7, <2>1, <2>2, <2>4
  <2> HIDE DEF p, q
  <2> DEFINE num == (cell * v + other * (p - v)) * w + far * (q - w)
  <2>7. 4 * Magnitude(num - cell * (p * q)) <= 3 * (most - least) * (p * q)
    <3>1. far \in Int
      BY <2>4
    <3>2. 4 * Magnitude(((cell * v + other * (p - v)) * w + far * (q - w)) - cell * (p * q))
            <= 3 * (most - least) * (p * q)
      BY ONLY <1>14, <2>3, <3>1, <2>6, Corner
    <3> QED  BY <3>2
  <2>8. value = num
    BY <2>5 DEF p, q
  <2> HIDE DEF num
  <2> QED  BY <2>7, <2>8 DEF p, q
<1> HIDE DEF value
<1> HIDE DEF s
<1>20. /\ s.num = value /\ s.den = bx.den * by.den /\ s.ix = bx.lo /\ s.iy = by.lo
  BY <1>1
<1>21. /\ \A c \in around : least <= c /\ c <= most
       /\ least * s.den <= s.num /\ s.num <= most * s.den
       /\ 4 * Magnitude(s.num - cell * s.den) <= 3 * (most - least) * s.den
  BY <1>13, <1>18, <1>19, <1>20
<1>22. around = CellsAround(m, s)
  BY <1>20 DEF CellsAround, around, at, right, down, nx, ny
<1>23. \E low, high \in CellsAround(m, s) :
         /\ \A c \in CellsAround(m, s) : low <= c /\ c <= high
         /\ low * s.den <= s.num /\ s.num <= high * s.den
         /\ 4 * Magnitude(s.num - cell * s.den) <= 3 * (high - low) * s.den
  <2> HIDE DEF cell
  <2> QED  BY <1>13, <1>21, <1>22, Zenon
<1> QED  BY <1>23 DEF NearCell, s, at, kx, ky

ValidationInv == tuned \in Tunes /\ snapshot \in Snapshots \cup {<<>>}

LEMMA ValidationInvHolds == ValidationInit /\ [][ValidationNext]_validationVars => []ValidationInv
<1>1. ValidationInit => ValidationInv
  BY DEF ValidationInit, ValidationInv
<1>2. ValidationInv /\ [ValidationNext]_validationVars => ValidationInv'
  BY DEF ValidationInv, ValidationNext, Measured, LoadRom, SetYAxisMode, validationVars
<1> QED  BY <1>1, <1>2, PTL

\* A rule is one of the maps of its tune, and there are finitely many.
LEMMA RuleIsMap ==
  ASSUME NEW tune \in Tunes
  PROVE  /\ Len(tune) \in Nat /\ Rules(tune) \subseteq 1..Len(tune) /\ Enabled(tune) \subseteq Rules(tune)
         /\ \A i \in Rules(tune) : tune[i] \in TuneMap
<1>1. tune \in Seq(TuneMap)
  BY ValidationAssumption
<1>2. Len(tune) \in Nat /\ DOMAIN tune = 1..Len(tune) /\ \A i \in 1..Len(tune) : tune[i] \in TuneMap
  <2> HIDE DEF TuneMap
  <2> QED  BY <1>1
<1> QED  BY <1>2 DEF Rules, Enabled

\* An evaluation has a verdict; without data it has none.
LEMMA VerdictIs ==
  ASSUME NEW m, NEW s
  PROVE  /\ EvaluateRule(m, s).status \in {"Ok", "Warn", "Fail", "NoData"}
         /\ m.enabled /\ {"speed", Measure(m)} \subseteq DOMAIN s /\ ~(Len(m.x) < 2) /\ ~(Len(m.y) < 2)
              => EvaluateRule(m, s).status # "NoData"
<1> DEFINE measured == IF Measure(m) = "MAP" THEN 10 * s["MAP"] ELSE s[Measure(m)]
           delta(t) == measured * t.den - t.num
           said(t) == [status |-> Classify(m, delta(t), t.den), name |-> m.name,
                       boostName |-> m.boostName, category |-> m.category, expected |-> t, delta |-> delta(t), ix |-> t.ix, iy |-> t.iy]
           kept == Sample(m, s["speed"], YPhys(m, s))
           unjudged == \/ ~m.enabled \/ ~({"speed", Measure(m)} \subseteq DOMAIN s)
                      \/ Len(m.x) < 2 \/ Len(m.y) < 2
<1>1. unjudged => EvaluateRule(m, s) = NoVerdict(m)
  BY Zenon DEF EvaluateRule
<1>2. ~unjudged => EvaluateRule(m, s) = CHOOSE t \in {said(u) : u \in {kept}} : TRUE
  BY Zenon DEF EvaluateRule, Given
<1>3. NoVerdict(m).status = "NoData"
  BY DEF NoVerdict
<1>4. \A t : said(t).status \in {"Ok", "Warn", "Fail"}
  <2> SUFFICES ASSUME NEW t PROVE said(t).status \in {"Ok", "Warn", "Fail"}
    OBVIOUS
  <2>1. said(t).status = Classify(m, delta(t), t.den)
    OBVIOUS
  <2> HIDE DEF said, delta
  <2>2. Classify(m, delta(t), t.den) \in {"Ok", "Warn", "Fail"}
    BY DEF Classify
  <2> QED  BY <2>1, <2>2
<1> HIDE DEF said, kept
<1>5. (CHOOSE t \in {said(u) : u \in {kept}} : TRUE) = said(kept)
  OBVIOUS
<1>6. ~unjudged => EvaluateRule(m, s) = said(kept)
  BY <1>2, <1>5, Zenon
<1> HIDE DEF unjudged
<1>7. unjudged => EvaluateRule(m, s).status = "NoData"
  BY <1>1, <1>3
<1>8. ~unjudged => EvaluateRule(m, s).status \in {"Ok", "Warn", "Fail"}
  BY <1>4, <1>6
<1> QED  BY <1>7, <1>8 DEF unjudged

\* A verdict depends on the speed, the load and the measure alone.
LEMMA VerdictSame ==
  ASSUME NEW m, NEW s, NEW t, {"speed", Measure(m)} \subseteq DOMAIN s,
         {"speed", Measure(m)} \subseteq DOMAIN t, s["speed"] = t["speed"],
         s[Measure(m)] = t[Measure(m)], YPhys(m, s) = YPhys(m, t)
  PROVE  EvaluateRule(m, s) = EvaluateRule(m, t)
<1> DEFINE measured(u) == IF Measure(m) = "MAP" THEN 10 * u["MAP"] ELSE u[Measure(m)]
           delta(x, k) == x * k.den - k.num
           said(x, k) == [status |-> Classify(m, delta(x, k), k.den), name |-> m.name,
                          boostName |-> m.boostName, category |-> m.category, expected |-> k,
                          delta |-> delta(x, k), ix |-> k.ix, iy |-> k.iy]
           kept(u) == Sample(m, u["speed"], YPhys(m, u))
           unjudged == ~m.enabled \/ Len(m.x) < 2 \/ Len(m.y) < 2
<1>1. ASSUME NEW u, {"speed", Measure(m)} \subseteq DOMAIN u
      PROVE  /\ unjudged => EvaluateRule(m, u) = NoVerdict(m)
             /\ ~unjudged => EvaluateRule(m, u) =
                              CHOOSE r \in {said(measured(u), k) : k \in {kept(u)}} : TRUE
  BY <1>1, Zenon DEF EvaluateRule, Given
<1>2. measured(s) = measured(t)
  OBVIOUS
<1>3. kept(s) = kept(t)
  BY Zenon
<1> HIDE DEF measured, kept, unjudged, said
<1> QED  BY <1>1, <1>2, <1>3, Zenon

\* Without its measure a rule has no verdict.
LEMMA VerdictNone ==
  ASSUME NEW m, NEW s, ~({"speed", Measure(m)} \subseteq DOMAIN s)
  PROVE  EvaluateRule(m, s) = NoVerdict(m)
BY Zenon DEF EvaluateRule

LEMMA PolledHolds == ValidationInv => PolledIsEnough
<1> SUFFICES ASSUME ValidationInv, NEW i \in Enabled(tuned)
             PROVE  LET polled == Restrict(snapshot, RequiredPids(tuned) \cap DOMAIN snapshot) IN
                    /\ RequiredPids(tuned) \subseteq DOMAIN snapshot /\ Len(tuned[i].x) > 1
                         /\ Len(tuned[i].y) > 1
                         => EvaluateRule(tuned[i], snapshot).status # "NoData"
                    /\ EvaluateRule(tuned[i], snapshot) = EvaluateRule(tuned[i], polled)
  BY Zenon DEF PolledIsEnough
<1> DEFINE m == tuned[i]
           polled == Restrict(snapshot, RequiredPids(tuned) \cap DOMAIN snapshot)
<1>1. {"speed", "load", Measure(m)} \subseteq RequiredPids(tuned)
  BY Zenon DEF RequiredPids
<1>2. m.enabled /\ m \in TuneMap
  BY RuleIsMap DEF Enabled, ValidationInv
<1>3. ASSUME RequiredPids(tuned) \subseteq DOMAIN snapshot, Len(m.x) > 1, Len(m.y) > 1
      PROVE  EvaluateRule(m, snapshot).status # "NoData"
  <2>1. Len(m.x) \in Int /\ Len(m.y) \in Int
    BY <1>2 DEF TuneMap
  <2>2. ~(Len(m.x) < 2) /\ ~(Len(m.y) < 2)
    BY <1>3, <2>1
  <2>3. {"speed", Measure(m)} \subseteq DOMAIN snapshot
    BY <1>1, <1>3
  <2> HIDE DEF m
  <2> QED  BY <1>2, <2>2, <2>3, VerdictIs
<1>4. /\ DOMAIN polled = RequiredPids(tuned) \cap DOMAIN snapshot
      /\ \A p \in DOMAIN polled : polled[p] = snapshot[p]
  BY DEF Restrict
<1> HIDE DEF m, polled
<1>5. \A p \in {"speed", "load", Measure(m)} :
        /\ p \in DOMAIN polled <=> p \in DOMAIN snapshot
        /\ p \in DOMAIN snapshot => polled[p] = snapshot[p]
  BY <1>1, <1>4
<1>6. YPhys(m, snapshot) = YPhys(m, polled)
  <2>1. CASE "load" \in DOMAIN snapshot
    <3>1. "load" \in DOMAIN polled /\ polled["load"] = snapshot["load"]
      BY <1>5, <2>1
    <3> QED  BY <2>1, <3>1, Zenon DEF YPhys
  <2>2. CASE "load" \notin DOMAIN snapshot
    <3>1. "load" \notin DOMAIN polled
      BY <1>5, <2>2
    <3> QED  BY <2>2, <3>1, Zenon DEF YPhys
  <2> QED  BY <2>1, <2>2
<1>7. EvaluateRule(m, snapshot) = EvaluateRule(m, polled)
  <2>1. CASE {"speed", Measure(m)} \subseteq DOMAIN snapshot
    <3>1. /\ {"speed", Measure(m)} \subseteq DOMAIN polled
          /\ snapshot["speed"] = polled["speed"] /\ snapshot[Measure(m)] = polled[Measure(m)]
      BY <1>5, <2>1
    <3> QED  BY <1>6, <2>1, <3>1, VerdictSame
  <2>2. CASE ~({"speed", Measure(m)} \subseteq DOMAIN snapshot)
    <3>1. ~({"speed", Measure(m)} \subseteq DOMAIN polled)
      BY <1>5, <2>2
    <3> QED  BY <2>2, <3>1, VerdictNone
  <2> QED  BY <2>1, <2>2
<1> QED  BY <1>3, <1>7 DEF m, polled

LEMMA LoadOnAxis ==
  ASSUME NEW m \in TuneMap, NEW s \in Snapshots
  PROVE  YPhys(m, s) \in Int
<1>1. Full \in Nat \ {0} /\ ("load" \in DOMAIN s => s["load"] \in Int)
  BY ValidationAssumption
<1>2. m.finger \in Seq(Int) /\ m.finger # <<>>
  BY DEF TuneMap
<1>3. Head(m.finger) \in Int /\ Last(m.finger) \in Int
  BY <1>2 DEF Last
<1> DEFINE low == Head(m.finger)
           high == Last(m.finger)
<1>4. low \in Int /\ high \in Int
  BY <1>3
<1> HIDE DEF low, high
<1>5. \A l \in Int : low + l * ((high - low) \div Full) \in Int
  BY <1>1, <1>4
<1>6. "load" \in DOMAIN s =>
        s["load"] \in Int /\ low + s["load"] * ((high - low) \div Full) \in Int
  BY <1>1, <1>5
<1> QED  BY <1>6 DEF YPhys, low, high

LEMMA ExpectedHolds == ValidationInv => ExpectedIsNear
<1> SUFFICES ASSUME ValidationInv, "speed" \in DOMAIN snapshot, NEW i \in Rules(tuned),
                    Len(tuned[i].x) > 1, Len(tuned[i].y) > 1, Rising(tuned[i].x), Rising(tuned[i].y)
             PROVE  NearCell(tuned[i], snapshot["speed"], YPhys(tuned[i], snapshot))
  BY Zenon DEF ExpectedIsNear
<1>1. snapshot \in Snapshots
  BY DEF ValidationInv
<1>2. snapshot["speed"] \in Int
  BY <1>1, ValidationAssumption DEF Range
<1>3. tuned[i] \in TuneMap
  BY RuleIsMap DEF ValidationInv
<1> QED  BY <1>1, <1>2, <1>3, LoadOnAxis, NearHolds

\* Each rule counts once, and a cell is hit when one is judged.
LEMMA TickCounts ==
  ASSUME NEW tune \in Tunes, NEW s
  PROVE  LET r == EvaluateAll(tune, s)
             count(v) == Cardinality({i \in DOMAIN r : r[i].status = v}) IN
         /\ count("Ok") \in Nat /\ count("Warn") \in Nat /\ count("Fail") \in Nat /\ count("NoData") \in Nat
         /\ count("Ok") + count("Warn") + count("Fail") + count("NoData") = Cardinality(Rules(tune))
         /\ Judged(r) # {} <=> count("Ok") + count("Warn") + count("Fail") > 0
         /\ Judged(r) # {} <=> PrimaryHit(r) # 0
<1> DEFINE r == EvaluateAll(tune, s)
           R == Rules(tune)
           of(v) == {i \in R : r[i].status = v}
<1>1. DOMAIN r = R /\ \A i \in R : r[i].status \in {"Ok", "Warn", "Fail", "NoData"}
  BY VerdictIs DEF EvaluateAll
<1>2. IsFiniteSet(R) /\ Len(tune) \in Nat /\ R \subseteq 1..Len(tune)
  <2>1. Len(tune) \in Nat /\ R \subseteq 1..Len(tune)
    BY RuleIsMap
  <2>2. IsFiniteSet(1..Len(tune))
    BY <2>1, FS_Interval
  <2> HIDE DEF R
  <2> QED  BY <2>1, <2>2, FS_Subset
<1> HIDE DEF r, R
<1>3. \A v : of(v) \in SUBSET R
  OBVIOUS
<1>4. \A v : IsFiniteSet(of(v)) /\ Cardinality(of(v)) \in Nat
  <2> HIDE DEF of
  <2> QED  BY <1>2, <1>3, FS_Subset, FS_CardinalityType
<1> DEFINE good == of("Ok") \cup of("Warn")
           judged == good \cup of("Fail")
<1>5. /\ of("Ok") \cap of("Warn") = {} /\ good \cap of("Fail") = {} /\ judged \cap of("NoData") = {}
      /\ R = judged \cup of("NoData")
  BY <1>1
<1>6. judged = Judged(r)
  BY <1>1 DEF Judged
<1> HIDE DEF of
<1>7. IsFiniteSet(good) /\ Cardinality(good) = Cardinality(of("Ok")) + Cardinality(of("Warn"))
  <2>1. Cardinality(good) = Cardinality(of("Ok")) + Cardinality(of("Warn")) - Cardinality(of("Ok") \cap of("Warn"))
    BY <1>4, FS_Union
  <2>2. Cardinality(of("Ok") \cap of("Warn")) = 0
    BY <1>5, FS_EmptySet
  <2>3. IsFiniteSet(good)
    BY <1>4, FS_Union
  <2> QED  BY <1>4, <2>1, <2>2, <2>3
<1> HIDE DEF good
<1>8. IsFiniteSet(judged) /\ Cardinality(judged) = Cardinality(good) + Cardinality(of("Fail"))
  <2>1. Cardinality(judged) = Cardinality(good) + Cardinality(of("Fail")) - Cardinality(good \cap of("Fail"))
    BY <1>4, <1>7, FS_Union
  <2>2. Cardinality(good \cap of("Fail")) = 0
    BY <1>5, FS_EmptySet
  <2>3. IsFiniteSet(judged)
    BY <1>4, <1>7, FS_Union
  <2>4. Cardinality(good) \in Nat
    BY <1>7, FS_CardinalityType
  <2> QED  BY <1>4, <2>1, <2>2, <2>3, <2>4
<1> HIDE DEF judged
<1>9. Cardinality(R) = Cardinality(judged) + Cardinality(of("NoData"))
  <2>1. Cardinality(R) = Cardinality(judged) + Cardinality(of("NoData")) - Cardinality(judged \cap of("NoData"))
    BY <1>4, <1>5, <1>8, FS_Union
  <2>2. Cardinality(judged \cap of("NoData")) = 0
    BY <1>5, FS_EmptySet
  <2>3. Cardinality(judged) \in Nat
    BY <1>8, FS_CardinalityType
  <2> QED  BY <1>4, <2>1, <2>2, <2>3
<1>10. judged # {} <=> Cardinality(judged) > 0
  <2>1. Cardinality(judged) \in Nat /\ (Cardinality(judged) = 0 <=> judged = {})
    BY <1>8, FS_CardinalityType, FS_EmptySet
  <2> QED  BY <2>1
<1>11. judged # {} <=> PrimaryHit(r) # 0
  <2> DEFINE J == Judged(r)
             boost == {i \in J : r[i].category = "boost" \/ r[i].boostName}
             last == CHOOSE i \in boost : \A j \in boost : i >= j
             least == CHOOSE i \in J : \A j \in J : i <= j
             n == Len(tune)
  <2>1. /\ boost # {} => PrimaryHit(r) = last
        /\ boost = {} /\ J # {} => PrimaryHit(r) = least
        /\ boost = {} /\ J = {} => PrimaryHit(r) = 0
    BY DEF PrimaryHit
  <2>2. J \in SUBSET (1..n) /\ boost \in SUBSET (1..n) /\ n \in Nat
    <3>1. J \subseteq 1..n
      BY <1>2, <1>5, <1>6
    <3> QED  BY <1>2, <3>1
  <2>3. boost # {} => last \in boost
    <3> HIDE DEF boost, n
    <3> QED  BY <2>2, ChosenGreatest
  <2>4. J # {} => least \in J
    <3> HIDE DEF J, n
    <3> QED  BY <2>2, ChosenLeast
  <2>5. ~(0 \in 1..n)
    BY <2>2
  <2>6. J = {} => boost = {}
    OBVIOUS
  <2> HIDE DEF boost, last, least, n, J
  <2>7. J # {} <=> PrimaryHit(r) # 0
    BY <2>1, <2>2, <2>3, <2>4, <2>5, <2>6
  <2> QED  BY <1>6, <2>7 DEF J
<1>12. \A v : {i \in DOMAIN r : r[i].status = v} = of(v)
  BY <1>1 DEF of
<1>13. /\ Cardinality(of("Ok")) + Cardinality(of("Warn")) + Cardinality(of("Fail"))
            + Cardinality(of("NoData")) = Cardinality(R)
       /\ judged # {} <=> Cardinality(of("Ok")) + Cardinality(of("Warn")) + Cardinality(of("Fail")) > 0
  BY <1>4, <1>7, <1>8, <1>9, <1>10
<1> QED  BY <1>4, <1>6, <1>11, <1>12, <1>13 DEF r, R

\* What a tick with results r, of n rules, makes of a summary.
Summed(sum, S) ==
  /\ sum.ticks \in Nat /\ sum.Ok \in Nat /\ sum.Warn \in Nat /\ sum.Fail \in Nat /\ sum.NoData \in Nat
  /\ sum.hits \in Seq(S)
Verdicts(sum) == sum.Ok + sum.Warn + sum.Fail
Ticked(sum, r, n, t) ==
  /\ t.ticks = sum.ticks + 1
  /\ t.Ok \in Nat /\ t.Warn \in Nat /\ t.Fail \in Nat /\ t.NoData \in Nat
  /\ Verdicts(t) + t.NoData = Verdicts(sum) + sum.NoData + n
  /\ Judged(r) = {} => t.hits = sum.hits /\ Verdicts(t) = Verdicts(sum)
  /\ Judged(r) # {} => Verdicts(t) > Verdicts(sum) /\ \E cell : t.hits = Append(sum.hits, cell)

LEMMA IngestIs ==
  ASSUME NEW tune \in Tunes, NEW s, NEW sum, NEW S, Summed(sum, S)
  PROVE  Ticked(sum, EvaluateAll(tune, s), Cardinality(Rules(tune)), Ingest(sum, EvaluateAll(tune, s)))
<1> DEFINE r == EvaluateAll(tune, s)
           t == Ingest(sum, r)
           count(v) == Cardinality({i \in DOMAIN r : r[i].status = v})
           k == PrimaryHit(r)
           n == Cardinality(Rules(tune))
<1>1. /\ count("Ok") \in Nat /\ count("Warn") \in Nat /\ count("Fail") \in Nat /\ count("NoData") \in Nat
      /\ count("Ok") + count("Warn") + count("Fail") + count("NoData") = n
      /\ Judged(r) # {} <=> count("Ok") + count("Warn") + count("Fail") > 0
      /\ Judged(r) # {} <=> k # 0
  BY TickCounts, Zenon
<1>2. /\ t.ticks = sum.ticks + 1 /\ t.Ok = sum.Ok + count("Ok") /\ t.Warn = sum.Warn + count("Warn")
      /\ t.Fail = sum.Fail + count("Fail") /\ t.NoData = sum.NoData + count("NoData")
      /\ t.hits = IF k = 0 THEN sum.hits ELSE Append(sum.hits, <<r[k].ix, r[k].iy>>)
  BY DEF Ingest
<1> DEFINE ok == count("Ok")
           warn == count("Warn")
           fail == count("Fail")
           none == count("NoData")
<1> HIDE DEF r, t, k, n
<1>3. ok \in Nat /\ warn \in Nat /\ fail \in Nat /\ none \in Nat /\ ok + warn + fail + none = n
  BY <1>1
<1>4. /\ t.Ok = sum.Ok + ok /\ t.Warn = sum.Warn + warn /\ t.Fail = sum.Fail + fail
      /\ t.NoData = sum.NoData + none
  BY <1>2
<1>5. /\ (Judged(r) = {} => k = 0 /\ ~(ok + warn + fail > 0))
      /\ (Judged(r) # {} => k # 0 /\ ok + warn + fail > 0)
  BY <1>1
<1> HIDE DEF count, ok, warn, fail, none
<1>6. sum.Ok \in Nat /\ sum.Warn \in Nat /\ sum.Fail \in Nat /\ sum.NoData \in Nat
  BY DEF Summed
<1>7. t.Ok \in Nat /\ t.Warn \in Nat /\ t.Fail \in Nat /\ t.NoData \in Nat
  BY <1>3, <1>4, <1>6
<1>8. Verdicts(t) + t.NoData = Verdicts(sum) + sum.NoData + n
  BY <1>3, <1>4, <1>6 DEF Verdicts
<1>9. Judged(r) = {} => t.hits = sum.hits /\ Verdicts(t) = Verdicts(sum)
  <2> SUFFICES ASSUME Judged(r) = {} PROVE t.hits = sum.hits /\ Verdicts(t) = Verdicts(sum)
    OBVIOUS
  <2>1. k = 0 /\ ok = 0 /\ warn = 0 /\ fail = 0
    BY <1>3, <1>5
  <2>2. t.Ok = sum.Ok /\ t.Warn = sum.Warn /\ t.Fail = sum.Fail
    BY <1>4, <1>6, <2>1
  <2> QED  BY <1>2, <2>1, <2>2 DEF Verdicts
<1>10. Judged(r) # {} => Verdicts(t) > Verdicts(sum) /\ \E cell : t.hits = Append(sum.hits, cell)
  <2> SUFFICES ASSUME Judged(r) # {}
               PROVE  Verdicts(t) > Verdicts(sum) /\ \E cell : t.hits = Append(sum.hits, cell)
    OBVIOUS
  <2>1. k # 0 /\ ok + warn + fail > 0
    BY <1>5
  <2>2. t.hits = Append(sum.hits, <<r[k].ix, r[k].iy>>)
    BY <1>2, <2>1
  <2>3. Verdicts(t) > Verdicts(sum)
    BY <1>3, <1>4, <1>6, <2>1 DEF Verdicts
  <2> QED  BY <2>2, <2>3
<1>11. t.ticks = sum.ticks + 1
  BY <1>2
<1>12. Ticked(sum, r, n, t)
  BY <1>7, <1>8, <1>9, <1>10, <1>11, Zenon DEF Ticked
<1> QED  BY <1>12 DEF r, n, t

LEMMA SummaryHolds == ValidationInv => SummaryAddsUp
<1> SUFFICES ASSUME ValidationInv PROVE SummaryAddsUp
  OBVIOUS
<1> SUFFICES ASSUME NEW s \in Snapshots
             PROVE  LET first == EvaluateAll(tuned, snapshot)
                        then == EvaluateAll(tuned, s)
                        sum == Ingest(Ingest(NoSummary, first), then) IN
                    /\ sum.Ok + sum.Warn + sum.Fail + sum.NoData = sum.ticks * Cardinality(Rules(tuned))
                    /\ Len(sum.hits) = Cardinality({r \in {<<1, first>>, <<2, then>>} : Judged(r[2]) # {}})
                    /\ sum.Ok + sum.Warn + sum.Fail > 0 <=> sum.hits # <<>>
  BY DEF SummaryAddsUp
<1> DEFINE first == EvaluateAll(tuned, snapshot)
           then == EvaluateAll(tuned, s)
           once == Ingest(NoSummary, first)
           sum == Ingest(once, then)
           n == Cardinality(Rules(tuned))
           pairs == {<<1, first>>, <<2, then>>}
           hit == {r \in pairs : Judged(r[2]) # {}}
<1>1. tuned \in Tunes
  BY DEF ValidationInv
<1>2. n \in Nat
  <2>1. Len(tuned) \in Nat /\ Rules(tuned) \subseteq 1..Len(tuned)
    BY <1>1, RuleIsMap
  <2>2. IsFiniteSet(1..Len(tuned))
    BY <2>1, FS_Interval
  <2> QED  BY <2>1, <2>2, FS_Subset, FS_CardinalityType
<1>3. Summed(NoSummary, {}) /\ NoSummary.ticks = 0 /\ Verdicts(NoSummary) = 0 /\ NoSummary.NoData = 0
      /\ NoSummary.hits = <<>>
  BY DEF NoSummary, Summed, Verdicts
<1>4. Ticked(NoSummary, first, n, once)
  BY <1>1, <1>3, IngestIs, Zenon
<1> HIDE DEF n
<1>5. PICK S : /\ Summed(once, S) /\ once.ticks = 1
               /\ Verdicts(once) + once.NoData = n /\ Verdicts(once) \in Nat
               /\ IF Judged(first) = {} THEN once.hits = <<>> /\ Len(once.hits) = 0 /\ Verdicts(once) = 0
                  ELSE once.hits # <<>> /\ Len(once.hits) = 1 /\ Verdicts(once) > 0
  <2> HIDE DEF once, first
  <2>1. /\ once.ticks = 1 /\ once.Ok \in Nat /\ once.Warn \in Nat /\ once.Fail \in Nat /\ once.NoData \in Nat
        /\ Verdicts(once) + once.NoData = n /\ Verdicts(once) \in Nat
    <3>1. /\ once.ticks = NoSummary.ticks + 1
          /\ once.Ok \in Nat /\ once.Warn \in Nat /\ once.Fail \in Nat /\ once.NoData \in Nat
          /\ Verdicts(once) + once.NoData = Verdicts(NoSummary) + NoSummary.NoData + n
      BY <1>4 DEF Ticked
    <3>2. Verdicts(once) \in Nat
      BY <3>1 DEF Verdicts
    <3> QED  BY <1>2, <1>3, <3>1, <3>2
  <2>2. CASE Judged(first) = {}
    <3>1. once.hits = <<>> /\ Verdicts(once) = 0
      BY <1>3, <1>4, <2>2 DEF Ticked
    <3>2. once.hits \in Seq({}) /\ Len(once.hits) = 0
      BY <3>1
    <3>3. Summed(once, {})
      BY <2>1, <3>2 DEF Summed
    <3> QED  BY <2>1, <2>2, <3>1, <3>2, <3>3
  <2>3. CASE Judged(first) # {}
    <3>1. Verdicts(once) > 0 /\ \E cell : once.hits = Append(<<>>, cell)
      BY <1>3, <1>4, <2>3 DEF Ticked
    <3>2. PICK cell : once.hits = Append(<<>>, cell)
      BY <3>1
    <3>3. once.hits \in Seq({cell}) /\ Len(once.hits) = 1 /\ once.hits # <<>>
      BY <3>2
    <3>4. Summed(once, {cell})
      BY <2>1, <3>3 DEF Summed
    <3> QED  BY <2>1, <2>3, <3>1, <3>3, <3>4
  <2> QED  BY <2>2, <2>3
<1>6. Ticked(once, then, n, sum)
  BY <1>1, <1>5, IngestIs, Zenon DEF n
<1>7. Cardinality(hit) = (IF Judged(first) = {} THEN 0 ELSE 1) + (IF Judged(then) = {} THEN 0 ELSE 1)
  <2> DEFINE a == <<1, first>>
             b == <<2, then>>
  <2>1. a # b /\ a[2] = first /\ b[2] = then
    OBVIOUS
  <2>2. hit = (IF Judged(first) = {} THEN {} ELSE {a}) \cup (IF Judged(then) = {} THEN {} ELSE {b})
    <3> HIDE DEF first, then
    <3> QED  OBVIOUS
  <2> HIDE DEF a, b, hit, first, then
  <2>3. CASE Judged(first) = {} /\ Judged(then) = {}
    <3>1. hit = {}
      BY <2>2, <2>3
    <3> QED  BY <2>3, <3>1, FS_EmptySet
  <2>4. CASE Judged(first) # {} /\ Judged(then) = {}
    <3>1. hit = {a}
      BY <2>2, <2>4
    <3>2. Cardinality(hit) = 1
      BY <3>1, FS_Singleton
    <3> QED  BY <2>4, <3>2
  <2>5. CASE Judged(first) = {} /\ Judged(then) # {}
    <3>1. hit = {b}
      BY <2>2, <2>5
    <3>2. Cardinality(hit) = 1
      BY <3>1, FS_Singleton
    <3> QED  BY <2>5, <3>2
  <2>6. CASE Judged(first) # {} /\ Judged(then) # {}
    <3>1. hit = {b} \cup {a} /\ IsFiniteSet({b}) /\ Cardinality({b}) = 1 /\ a \notin {b}
      BY <2>1, <2>2, <2>6, FS_Singleton
    <3>2. Cardinality({b} \cup {a}) = 2
      BY <3>1, FS_AddElement
    <3> QED  BY <2>6, <3>1, <3>2
  <2> QED  BY <2>3, <2>4, <2>5, <2>6
<1> HIDE DEF sum, once, first, then, hit
<1>8. Verdicts(sum) + sum.NoData = sum.ticks * n
  <2>1. sum.ticks = 2 /\ Verdicts(sum) + sum.NoData = Verdicts(once) + once.NoData + n
    <3>1. once.ticks + 1 = 2
      BY <1>5
    <3> QED  BY <1>6, <3>1 DEF Ticked
  <2>2. Verdicts(sum) + sum.NoData = n + n
    BY <1>5, <2>1
  <2> QED  BY <1>2, <2>1, <2>2
<1>9. Len(sum.hits) = Cardinality(hit) /\ (Verdicts(sum) > 0 <=> sum.hits # <<>>)
  <2>0. once.hits \in Seq(S)
    BY <1>5 DEF Summed
  <2>1. CASE Judged(then) = {}
    <3>1. sum.hits = once.hits /\ Verdicts(sum) = Verdicts(once)
      BY <1>6, <2>1 DEF Ticked
    <3>2. CASE Judged(first) = {}
      BY <1>5, <1>7, <2>1, <3>1, <3>2
    <3>3. CASE Judged(first) # {}
      <4>1. Cardinality(hit) = 1 /\ Len(once.hits) = 1 /\ Verdicts(once) > 0 /\ once.hits # <<>>
        BY <1>5, <1>7, <2>1, <3>3
      <4> QED  BY <3>1, <4>1
    <3> QED  BY <3>2, <3>3
  <2>2. CASE Judged(then) # {}
    <3>1. Verdicts(sum) > Verdicts(once) /\ \E cell : sum.hits = Append(once.hits, cell)
      BY <1>6, <2>2 DEF Ticked
    <3>2. PICK cell : sum.hits = Append(once.hits, cell)
      BY <3>1
    <3>3. Len(sum.hits) = Len(once.hits) + 1 /\ sum.hits # <<>>
      <4>1. once.hits \in Seq(S \cup {cell})
        BY <2>0
      <4>2. Len(sum.hits) = Len(once.hits) + 1 /\ Len(once.hits) \in Nat
        BY <3>2, <4>1, AppendProperties
      <4> QED  BY <4>2
    <3>4. Verdicts(sum) \in Int
      BY <1>6 DEF Ticked, Verdicts
    <3>5. Verdicts(sum) > 0
      BY <1>5, <3>1, <3>4
    <3>6. CASE Judged(first) = {}
      BY <1>5, <1>7, <2>2, <3>3, <3>5, <3>6
    <3>7. CASE Judged(first) # {}
      BY <1>5, <1>7, <2>2, <3>3, <3>5, <3>7
    <3> QED  BY <3>6, <3>7
  <2> QED  BY <2>1, <2>2
<1>10. sum.Ok + sum.Warn + sum.Fail + sum.NoData = sum.ticks * n
  <2>1. sum.Ok \in Nat /\ sum.Warn \in Nat /\ sum.Fail \in Nat /\ sum.NoData \in Nat
    BY <1>6 DEF Ticked
  <2> QED  BY <1>8, <2>1 DEF Verdicts
<1>11. sum.Ok + sum.Warn + sum.Fail > 0 <=> sum.hits # <<>>
  BY <1>9 DEF Verdicts
<1> QED  BY <1>9, <1>10, <1>11 DEF sum, once, first, then, hit, n, pairs

\* Whatever the tune, what is measured and the axis of the maps: once every PID that it requires
\* has a value, each rule that can be judged is, and no verdict needs another; the value that a map is said to hold is near the cells around; and the
\* summary of a session adds up (TuneValidation.cpp, MapSampler.cpp).
THEOREM VerdictsHold == ValidationInit /\ [][ValidationNext]_validationVars => []VerdictsSound
<1>1. ValidationInv => VerdictsSound
  BY PolledHolds, ExpectedHolds, SummaryHolds DEF VerdictsSound
<1> QED  BY <1>1, ValidationInvHolds, PTL

\* The parts share no state: a step of the whole is a step, or none, of each of them.
LEMMA WholeStep ==
  [HardwareNext]_<<part, panelVars, panelRest>> =>
    /\ [PanelNext]_panelVars /\ [MppsNext]_mppsVars /\ [BusNext]_busVars
    /\ [CanNext]_canVars /\ [BtNext]_btVars /\ [ServiceNext]_serviceVars
    /\ [ValidationNext]_validationVars /\ [Next]_vars /\ [FALSE]_part
BY Zenon DEF HardwareNext, panelRest, mppsRest, busRest, canRest, btRest, serviceRest, verdictRest,
   bannerRest

\* Every part of the whole behaves as it does alone, with the fairness that it has.
THEOREM PartsAreAlone ==
  HardwareSpec =>
    /\ PanelSpec /\ MppsSpec /\ BusSpec /\ CanSpec /\ BtSpec
    /\ ServiceInit /\ [][ServiceNext]_serviceVars /\ ServiceFairness
    /\ ValidationInit /\ [][ValidationNext]_validationVars
    /\ Spec /\ part \in Parts /\ [][FALSE]_part
<1>1. HardwareInit => /\ PanelInit /\ MppsInit /\ BusInit /\ CanInit /\ BtInit /\ ServiceInit
                      /\ ValidationInit /\ Init /\ part \in Parts
  BY DEF HardwareInit
<1> QED
  BY <1>1, WholeStep, PTL
     DEF HardwareSpec, PanelSpec, MppsSpec, BusSpec, CanSpec, BtSpec, Spec

\* Every part keeps its type.
THEOREM HardwareTyped == HardwareSpec => []HardwareTypeOK
<1>1. CanSpec => []CanTypeOK
  BY CanInitTyped, CanStepTyped, PTL DEF CanSpec
<1>2. part \in Parts /\ [FALSE]_part => (part \in Parts)'
  OBVIOUS
<1>3. part \in Parts /\ [][FALSE]_part => [](part \in Parts)
  BY <1>2, PTL
<1> QED
  BY <1>1, <1>3, PartsAreAlone, PanelKnows, MppsTyped, BusTyped, DongleIsLetGo, PhoneMaySleep,
     BannerTyped, PTL DEF HardwareTypeOK

\* Whatever part is at work, the phone has let go of a dongle that no driver serves, and of its
\* wake lock once nobody drives and Android has done what it was asked.
THEOREM PhoneIsLetGo == HardwareSpec => []PhoneLetsGo
BY PartsAreAlone, DongleIsLetGo, PhoneMaySleep, PTL DEF PhoneLetsGo

\* What the panel shows as measured is measured, drive mode needs no other action but in the
\* two cases that DriveModeMeasures names, and what is measured is judged against what the maps
\* of the tune hold.
THEOREM AcquisitionsAreSound == HardwareSpec => []AcquisitionsSound
BY PartsAreAlone, PanelKnows, VerdictsHold, PTL DEF AcquisitionsSound
=============================================================================
