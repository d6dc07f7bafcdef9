--------------------------- MODULE TuneValidation ---------------------------
(***************************************************************************)
(* What a live measure is compared with (TuneValidation.cpp,               *)
(* MapSampler.cpp): the rules of a tune, the PIDs they need, the value     *)
(* that a map of the ROM holds at a speed and a load, the verdict, and     *)
(* what the recorder of a session keeps of it.  The variables are one tune *)
(* and one snapshot of the PIDs; the banner and the polling that feed them *)
(* are in BoostBanner, ObdPanel and DriveController.                       *)
(*                                                                         *)
(* Abstractions.  Values are integers and factors are 1; the value of a    *)
(* map is a fraction, [num, den].  The search of the maps in the ROM is    *)
(* in Relocation: a map of a tune is found or not.  The unit of a map is   *)
(* the quantity that it is taken for, and the tolerance of air and lambda  *)
(* is a constant.                                                          *)
(***************************************************************************)
EXTENDS Integers, Sequences, FiniteSets, SequencesExt, Functions

CONSTANTS
  Tunes,        \* sequences of maps
  Snapshots,    \* m_live, by PID: "speed" is the engine's, the load is in 0..Full
  Full,         \* the load of 100 %
  MaxDelta,     \* m_tolerance
  MaxDeltaAir,
  MaxDeltaLambda

Quantities == {"pressure", "air", "lambda", "factor", "other"}
Categories == {"boost", "smoke", "air", "fuel"}
\* boostName: "boost" or "pAirBas" is in the name of the map, whatever the case.
\* The rows of a map are as long as its axis x, and as many as its axis y has values.
TuneMap ==
  {m \in [name : STRING, boostName : BOOLEAN, category : STRING, unit : Quantities,
          found : BOOLEAN, enabled : BOOLEAN,
          finger : Seq(Int), x : Seq(Int), y : Seq(Int), cells : Seq(Seq(Int))] :
     /\ Len(m.cells) = Len(m.y) /\ \A j \in DOMAIN m.cells : Len(m.cells[j]) = Len(m.x)
     /\ m.finger # <<>>}

ASSUME ValidationAssumption ==
  /\ Full \in Nat \ {0} /\ {MaxDelta, MaxDeltaAir, MaxDeltaLambda} \subseteq Nat
  /\ \A t \in Tunes : t \in Seq(TuneMap)
       /\ \A i \in DOMAIN t : (Last(t[i].finger) - Head(t[i].finger)) % Full = 0
  /\ \A s \in Snapshots : Range(s) \subseteq Int /\ ("load" \in DOMAIN s => s["load"] \in 0..Full)

VARIABLES
  tuned,        \* the tune of the validator
  snapshot,     \* m_live
  yMode         \* of the rules: "load", EngineLoadPct, or "axis", OpenDamosAxis

validationVars == <<tuned, snapshot, yMode>>

ValidationInit == tuned \in Tunes /\ snapshot = <<>> /\ yMode = "load"

\* onPid and onPidUpdate, and the link that goes; a tune that is loaded.
Measured == snapshot' \in Snapshots /\ UNCHANGED <<tuned, yMode>>
LoadRom == tuned' \in Tunes /\ UNCHANGED <<snapshot, yMode>>

\* onYAxisModeChanged: the rules are made again of the same tune.
SetYAxisMode == yMode' \in {"load", "axis"} /\ UNCHANGED <<tuned, snapshot>>

ValidationNext == Measured \/ LoadRom \/ SetYAxisMode

-----------------------------------------------------------------------------
(* Rules. *)

\* What F makes of the value v, which is worked out once.
Given(v, F(_)) == CHOOSE r \in {F(x) : x \in {v}} : TRUE

NoMeasure == "none"

\* defaultMeasurePid: the driver's request is compared with the load.
DefaultMeasure(category) ==
  CASE category = "boost" -> "MAP"
    [] category = "smoke" -> "AFR"
    [] category = "air" -> "MAF"
    [] category = "fuel" -> "rail"
    [] category = "driver" -> "load"
    [] OTHER -> "MAP"

\* inferMeasure: the unit, then the category.
Measure(m) ==
  CASE m.unit = "pressure" -> "MAP"
    [] m.unit = "air" -> "MAF"
    [] m.unit = "lambda" -> "AFR"
    [] m.unit = "factor" -> NoMeasure
    [] OTHER -> DefaultMeasure(m.category)

\* buildRules: the maps that have a rule, by their places in the tune.
Rules(tune) ==
  {i \in DOMAIN tune : tune[i].category \in Categories /\ tune[i].found /\ Measure(tune[i]) # NoMeasure}
Enabled(tune) == {i \in Rules(tune) : tune[i].enabled}

\* A slip: the load is left to the sensors page.
RequiredPidsUnloaded(tune) ==
  {"speed", "vehicle"}
    \cup {Measure(tune[i]) : i \in Enabled(tune)}

\* requiredPids
RequiredPids(tune) ==
  {"speed", "load", "vehicle"}
    \cup {Measure(tune[i]) : i \in Enabled(tune)}

-----------------------------------------------------------------------------
(* The value of a map. *)

\* A slip: the fraction of the way back.
BracketBackwards(axis, target) ==
  LET n == Len(axis)
      inside == {i \in 1..n - 1 : axis[i] <= target /\ target <= axis[i + 1]}
      first == CHOOSE i \in inside : \A j \in inside : i <= j
      span(i) == IF axis[i] < axis[i + 1] THEN axis[i + 1] - axis[i] ELSE 1
  IN IF target <= axis[1] THEN [lo |-> 1, hi |-> 1, num |-> 0, den |-> 1]
     ELSE IF target >= axis[n] \/ inside = {} THEN [lo |-> n, hi |-> n, num |-> 0, den |-> 1]
     ELSE [lo |-> first, hi |-> first + 1, num |-> axis[first + 1] - target,
           den |-> span(first)]

\* findAxisBracket: outside the axis, its end.
Bracket(axis, target) ==
  LET n == Len(axis)
      inside == {i \in 1..n - 1 : axis[i] <= target /\ target <= axis[i + 1]}
      first == CHOOSE i \in inside : \A j \in inside : i <= j
      span(i) == IF axis[i] < axis[i + 1] THEN axis[i + 1] - axis[i] ELSE 1
  IN IF target <= axis[1] THEN [lo |-> 1, hi |-> 1, num |-> 0, den |-> 1]
     ELSE IF target >= axis[n] \/ inside = {} THEN [lo |-> n, hi |-> n, num |-> 0, den |-> 1]
     ELSE [lo |-> first, hi |-> first + 1, num |-> target - axis[first],
           den |-> span(first)]

\* sampleMapBilinear; an axis of one value is refused before.
Bilinear(m, bx, by) ==
  LET at(i, j) == m.cells[j][i]
      along(j) == at(bx.lo, j) * bx.den + (at(bx.hi, j) - at(bx.lo, j)) * bx.num
  IN [num |-> along(by.lo) * by.den + (along(by.hi) - along(by.lo)) * by.num,
      den |-> bx.den * by.den, ix |-> bx.lo, iy |-> by.lo]
Sample(m, x, y) ==
  Given(<<Bracket(m.x, x), Bracket(m.y, y)>>, LAMBDA b : Bilinear(m, b[1], b[2]))

\* yPhysForRule: the load over the axis of the recipe, or as it is; 0 when it was never
\* measured.
YPhys(m, s) ==
  IF "load" \notin DOMAIN s THEN 0
  ELSE IF yMode = "axis" \/ Last(m.finger) <= Head(m.finger) THEN s["load"]
  ELSE Head(m.finger) + s["load"] * ((Last(m.finger) - Head(m.finger)) \div Full)

-----------------------------------------------------------------------------
(* Verdicts. *)

\* classifyDelta, of a difference d / den.
ToleranceOf(m) ==
  CASE m.unit = "lambda" -> MaxDeltaLambda
    [] m.unit = "air" -> MaxDeltaAir
    [] OTHER -> MaxDelta
Magnitude(d) == IF d < 0 THEN -d ELSE d
Classify(m, d, den) ==
  CASE Magnitude(d) <= ToleranceOf(m) * den -> "Ok"
    [] Magnitude(d) > ToleranceOf(m) * den /\ Magnitude(d) <= 2 * ToleranceOf(m) * den -> "Warn"
    [] OTHER -> "Fail"

NoVerdict(m) ==
  [status |-> "NoData", name |-> m.name, boostName |-> m.boostName, category |-> m.category]

\* evaluateRule, with entry, reloc, measuredValue and sampleMap.  MAP comes in kPa.
EvaluateRule(m, s) ==
  IF ~m.enabled \/ ~({"speed", Measure(m)} \subseteq DOMAIN s) \/ Len(m.x) < 2 \/ Len(m.y) < 2
  THEN NoVerdict(m)
  ELSE LET measured == IF Measure(m) = "MAP" THEN 10 * s["MAP"] ELSE s[Measure(m)]
           verdict(sample) ==
             LET delta == measured * sample.den - sample.num
             IN [status |-> Classify(m, delta, sample.den), name |-> m.name,
                 boostName |-> m.boostName, category |-> m.category, expected |-> sample,
                 delta |-> delta, ix |-> sample.ix, iy |-> sample.iy]
       IN Given(Sample(m, s["speed"], YPhys(m, s)), verdict)

EvaluateAll(tune, s) == [i \in Rules(tune) |-> EvaluateRule(tune[i], s)]

Judged(results) == {i \in DOMAIN results : results[i].status # "NoData"}

-----------------------------------------------------------------------------
(* The recorder of a session. *)

NoSummary == [ticks |-> 0, Ok |-> 0, Warn |-> 0, Fail |-> 0, NoData |-> 0, hits |-> <<>>]

\* The place of the last result of boost, by its category or the name of its map, or else of
\* the first result; 0 when nothing was judged.
PrimaryHit(results) ==
  LET boost == {i \in Judged(results) : results[i].category = "boost" \/ results[i].boostName}
  IN CASE boost # {} -> CHOOSE i \in boost : \A j \in boost : i >= j
       [] boost = {} /\ Judged(results) # {} ->
            CHOOSE i \in Judged(results) : \A j \in Judged(results) : i <= j
       [] OTHER -> 0

\* A slip: a tick without data counts for the cell too.
IngestAnyway(sum, results) ==
  LET count(v) == Cardinality({i \in DOMAIN results : results[i].status = v})
      cell == IF PrimaryHit(results) = 0 THEN <<1, 1>>
              ELSE <<results[PrimaryHit(results)].ix, results[PrimaryHit(results)].iy>>
  IN [ticks |-> sum.ticks + 1, Ok |-> sum.Ok + count("Ok"), Warn |-> sum.Warn + count("Warn"),
      Fail |-> sum.Fail + count("Fail"), NoData |-> sum.NoData + count("NoData"),
      hits |-> Append(sum.hits, cell)]

\* SessionRecorder::ingest; the cells hit, one by one.
Ingest(sum, results) ==
  LET count(v) == Cardinality({i \in DOMAIN results : results[i].status = v})
      k == PrimaryHit(results)
  IN [ticks |-> sum.ticks + 1, Ok |-> sum.Ok + count("Ok"), Warn |-> sum.Warn + count("Warn"),
      Fail |-> sum.Fail + count("Fail"), NoData |-> sum.NoData + count("NoData"),
      hits |-> IF k = 0 THEN sum.hits ELSE Append(sum.hits, <<results[k].ix, results[k].iy>>)]

-----------------------------------------------------------------------------
(* Properties. *)

\* What is polled is enough: once every PID that a tune requires has a value, each rule that is
\* enabled and whose map has two axes is judged, and whatever else is known or not, no verdict
\* would be another without what is not polled: a load that nobody asked for is not taken for 0
\* (requiredPids, TuneValidation.cpp:329, and evaluateRule, 424, are written apart).
PolledIsEnough ==
  LET polled == Restrict(snapshot, RequiredPids(tuned) \cap DOMAIN snapshot) IN
  \A i \in Enabled(tuned) :
    /\ RequiredPids(tuned) \subseteq DOMAIN snapshot /\ Len(tuned[i].x) > 1 /\ Len(tuned[i].y) > 1
         => EvaluateRule(tuned[i], snapshot).status # "NoData"
    /\ EvaluateRule(tuned[i], snapshot) = EvaluateRule(tuned[i], polled)

\* What a map is said to hold lies between the cells around, and no further from the nearest one
\* than three quarters of what parts them: on axes that rise, in the middle of the map, at its
\* edges and outside (MapSampler.cpp:16-90).
Rising(axis) == \A i \in 1..Len(axis) - 1 : axis[i] < axis[i + 1]
NearestTo(axis, v) ==
  CHOOSE i \in DOMAIN axis :
    \A j \in DOMAIN axis : Magnitude(axis[i] - v) <= Magnitude(axis[j] - v)
CellsAround(m, s) ==
  {m.cells[j][i] : i \in s.ix..(IF s.ix < Len(m.x) THEN s.ix + 1 ELSE s.ix),
                   j \in s.iy..(IF s.iy < Len(m.y) THEN s.iy + 1 ELSE s.iy)}
NearCell(m, x, y) ==
  \A s \in {Sample(m, x, y)}, cell \in {m.cells[NearestTo(m.y, y)][NearestTo(m.x, x)]} :
    \E least, most \in CellsAround(m, s) :
      /\ \A c \in CellsAround(m, s) : least <= c /\ c <= most
      /\ least * s.den <= s.num /\ s.num <= most * s.den
      /\ 4 * Magnitude(s.num - cell * s.den) <= 3 * (most - least) * s.den
ExpectedIsNear ==
  "speed" \in DOMAIN snapshot =>
    \A i \in Rules(tuned) : LET m == tuned[i] IN
      Len(m.x) > 1 /\ Len(m.y) > 1 /\ Rising(m.x) /\ Rising(m.y)
        => NearCell(m, snapshot["speed"], YPhys(m, snapshot))

\* The summary of a session adds up: whatever snapshots follow each other, each rule counts once a
\* tick, and a cell is hit in the ticks that judged something (TuneValidation.cpp:114).
SummaryAddsUp ==
  \A first \in {EvaluateAll(tuned, snapshot)}, then \in {EvaluateAll(tuned, s) : s \in Snapshots} :
    \A sum \in {Ingest(Ingest(NoSummary, first), then)} :
       /\ sum.Ok + sum.Warn + sum.Fail + sum.NoData = sum.ticks * Cardinality(Rules(tuned))
       /\ Len(sum.hits) = Cardinality({r \in {<<1, first>>, <<2, then>>} : Judged(r[2]) # {}})
       /\ sum.Ok + sum.Warn + sum.Fail > 0 <=> sum.hits # <<>>

VerdictsSound == PolledIsEnough /\ ExpectedIsNear /\ SummaryAddsUp
=============================================================================
