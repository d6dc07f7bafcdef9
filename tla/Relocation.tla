----------------------------- MODULE Relocation -----------------------------
(***************************************************************************)
(* The relocation of the characteristics of a recipe (open_damos) on a     *)
(* ROM of another firmware (libs/ecu-core/src/OpenDamosRelocate.cpp):      *)
(* curves and maps by the fingerprint of their axes, each address given to *)
(* one of them, then single values by their distance to a map found.       *)
(*                                                                         *)
(* Abstractions.  A ROM is a sequence of words with addresses from 1; a    *)
(* word is read the same way for every type, and Padding is the unwritten  *)
(* one.  Scores are in hundredths.  Physical values are raw ones, and the  *)
(* relative tolerance, the text of the warnings and the progress are left  *)
(* out.                                                                    *)
(***************************************************************************)
EXTENDS Integers, Sequences, FiniteSets, SequencesExt

CONSTANTS
  Size,         \* words of a ROM
  Padding,      \* the word of unwritten flash, the largest one
  Tolerance,    \* AxisTolerance::absTol
  Window,       \* RelocateOptions::defaultWindow
  Recipe        \* the sequence of entries: name, type, com (axes apart), at (default
                \* address), dims, axes (fingerprints), axesAt; for a value anchor, search
                \* (value-range-search), range and stock, -1 when there is none

ASSUME RelocationAssumption ==
  /\ Size \in Nat \ {0} /\ Padding \in Nat \ {0}
  /\ Tolerance \in Nat /\ Window \in Nat

Maps == {e \in Range(Recipe) : e.type # "value"}

\* A map or a curve has one axis for each of its dimensions.
Shaped(e) ==
  /\ e.type \in {"map", "curve"} /\ e.com \in BOOLEAN
  /\ e.dims \in Seq(Nat) /\ Len(e.dims) = IF e.type = "map" THEN 2 ELSE 1
  /\ Len(e.axes) = Len(e.dims) /\ \A i \in 1..Len(e.dims) : e.axes[i] \in Seq(Int)

\* As in every recipe of the library (ressources/*/open_damos.json), a name stands for one
\* entry, and so does an address for one map or curve.
ASSUME LibraryAssumption ==
  /\ Recipe \in Seq(Range(Recipe)) /\ \A e \in Range(Recipe) : e.at \in Int
  /\ \A e \in Maps : Shaped(e)
  /\ \A i, j \in 1..Len(Recipe) : Recipe[i].name = Recipe[j].name => i = j
  /\ \A e, f \in Maps : e.at = f.at => e = f

RomType == [1..Size -> 0..Padding]

Abs(n) == IF n < 0 THEN -n ELSE n
Least(a, b) == IF a < b THEN a ELSE b
Most(a, b) == IF a < b THEN b ELSE a
Total(s) == FoldLeft(LAMBDA sum, n : sum + n, 0, s)
\* What F makes of the value v, which is worked out once.
Given(v, F(_)) == CHOOSE r \in {F(x) : x \in {v}} : TRUE
Entry(name) == CHOOSE e \in Range(Recipe) : e.name = name

\* readInt succeeds on n words from a.
Inside(a, n) == a \in 1..Size - n + 1
Words(rom, a, n) == [i \in 1..n |-> rom[a + i - 1]]

-----------------------------------------------------------------------------
(* Maps and curves. *)

NoMatch == [mode |-> "none", score |-> 0]

\* axisMatches: as many values, in order, or else as a bag with the same ends.
AxisScore(actual, expected) ==
  LET n == Len(expected)
      near(a, e) == Abs(a - e) <= Tolerance
      strict == Cardinality({i \in 1..n : near(actual[i], expected[i])})
      bag == Cardinality({i \in 1..n : \E j \in 1..n : near(actual[j], expected[i])})
      err == Total([i \in 1..n |-> Abs(actual[i] - expected[i])])
      sum == Most(1, Total([i \in 1..n |-> Abs(expected[i])]))
      ends(s) == {x \in Range(s) : \A y \in Range(s) : x <= y}
                 \X {x \in Range(s) : \A y \in Range(s) : y <= x}
      sameEnds == \A a \in ends(actual), e \in ends(expected) :
                    near(a[1], e[1]) /\ near(a[2], e[2])
  IN IF n = 0 \/ Len(actual) # n THEN NoMatch
     ELSE IF 100 * strict >= 85 * n
     THEN [mode |-> "strict", score |-> (100 * strict * (sum - Least(sum, err))) \div (n * sum)]
     ELSE IF 100 * bag >= 70 * n /\ sameEnds
     THEN [mode |-> "bag", score |-> (80 * bag) \div n]
     ELSE NoMatch

\* scanStandaloneAxis: the first word is looked at first.
StandaloneAxis(rom, fp) ==
  {a \in 1..Size : /\ Len(fp) >= 2 /\ Inside(a, Len(fp))
                   /\ Abs(rom[a] - fp[1]) <= Tolerance
                   /\ AxisScore(Words(rom, a, Len(fp)), fp).mode # "none"}

Cells(e) == IF e.type = "map" THEN e.dims[1] * e.dims[2] ELSE e.dims[1]

\* dataBlockPlausible
Plausible(rom, a, cells) ==
  /\ cells > 0 /\ Inside(a, cells)
  /\ Range(Words(rom, a, cells)) \notin {{0}, {Padding}}

\* findComAxis: both axes at the same distance from their default addresses.
ComAxis(rom, e) ==
  LET score(i, d) == AxisScore(Words(rom, e.axesAt[i] + d, Len(e.axes[i])), e.axes[i]).score
      found(i, d) == e.axesAt[i] + d \in StandaloneAxis(rom, e.axes[i])
  IN IF ~Inside(e.at, 1) THEN {}
     ELSE {[address |-> e.at + d,
            score |-> IF e.type = "map" THEN (score(1, d) + score(2, d)) \div 2
                      ELSE (9 * score(1, d)) \div 10] :
             d \in {d \in -Size..Size : /\ \A i \in 1..Len(e.axes) : found(i, d)
                                        /\ Plausible(rom, e.at + d, Cells(e))}}

\* findMapByFingerprint between two addresses: the dimensions, then the axes; the data are
\* not looked at.
InlineAxes(rom, e, from, to) ==
  LET n == Len(e.dims)
      axisAt(a, i) == a + n + (IF i = 1 THEN 0 ELSE e.dims[1])
      read == {a \in from..to : /\ Inside(a, n + Total(e.dims)) /\ a + n - 1 <= to
                                /\ Words(rom, a, n) = e.dims}
      matches == {[address |-> a,
                   axes |-> [i \in 1..n |-> AxisScore(Words(rom, axisAt(a, i), e.dims[i]), e.axes[i])]] :
                    a \in read}
      mean(m) == Total([i \in 1..n |-> m.axes[i].score]) \div n
      allStrict(m) == \A i \in 1..n : m.axes[i].mode = "strict"
  IN {[address |-> m.address,
       score |-> IF allStrict(m) THEN Least(100, mean(m) + 10) ELSE mean(m)] :
        m \in {m \in matches : \A i \in 1..n : m.axes[i].mode # "none"}}

\* findMapByFingerprint: around the default address first, everywhere if nothing there is
\* close enough.
FindMapByFingerprint(rom, e) ==
  IF e.com THEN ComAxis(rom, e)
  ELSE Given(InlineAxes(rom, e, Most(1, e.at - Window), Least(Size, e.at + Window)),
             LAMBDA near : IF \E c \in near : c.score >= 90 THEN near
                           ELSE InlineAxes(rom, e, 1, Size))

\* The candidate of the best score, then the closest; scores less than 0.01 apart are equal.
Best(candidates, at) ==
  LET scored == {c \in candidates : \A d \in candidates : d.score - c.score <= 1}
      close == {c \in scored : \A d \in scored : Abs(c.address - at) <= Abs(d.address - at)}
  IN CHOOSE c \in close : \A d \in close : c.address <= d.address

\* The attribution of e: none if there is no candidate left.
Taken(found, e, free) ==
  IF free = {} THEN found ELSE found \cup {[name |-> e.name, cand |-> Best(free, e.at)]}

\* A slip: addresses are not taken.
AttributeShared(rom, found, e) ==
  Given(FindMapByFingerprint(rom, e), LAMBDA free : Taken(found, e, free))

\* One step of the attribution: the best candidate that no earlier entry has taken.
Attribute(rom, found, e) ==
  Given({c \in FindMapByFingerprint(rom, e) : \A f \in found : f.cand.address # c.address},
        LAMBDA free : Taken(found, e, free))

\* relocate, first phase: maps and curves in the order of the recipe.
MapMatches(rom) ==
  FoldLeft(LAMBDA found, e : IF e.type = "value" THEN found ELSE Attribute(rom, found, e),
           {}, Recipe)

-----------------------------------------------------------------------------
(* Values. *)

\* findValueByAnchor, value-range-search: the value in the range that is closest to the stock
\* one; the first of them.
SearchRange(rom, e, base) ==
  LET inRange == {a \in Most(1, base - Window)..Least(Size, base + Window) :
                    rom[a] >= e.range[1] /\ rom[a] <= e.range[2]}
      target == IF e.stock >= 0 THEN e.stock ELSE (e.range[1] + e.range[2]) \div 2
      close == {a \in inRange : \A b \in inRange : Abs(rom[a] - target) <= Abs(rom[b] - target)}
  IN {a \in close : \A b \in close : a <= b}

\* findValueByAnchor, anchor-delta: is the value read there believable?
Believable(rom, e, base) ==
  /\ rom[base] # Padding
  /\ ~(rom[base] = 0 /\ e.stock > 0)
  /\ e.range = <<>> \/ (rom[base] >= e.range[1] /\ rom[base] <= e.range[2])

NotFound(e) == [address |-> e.at, source |-> "default", score |-> 0]

\* relocate, second phase.
RelocateValue(rom, e, maps) ==
  LET anchors == {f \in maps : f.name = e.anchor}
      base == e.at + (CHOOSE d \in {f.cand.address - Entry(f.name).at : f \in anchors} : TRUE)
      searched == IF e.search /\ e.range # <<>> THEN SearchRange(rom, e, base) ELSE {}
      anchored(a, score) == [address |-> a, source |-> "anchor", score |-> score]
  IN IF anchors # {} /\ Inside(base, 1) /\ searched # {}
     THEN anchored(CHOOSE a \in searched : TRUE, 70)
     ELSE IF anchors # {} /\ Inside(base, 1) /\ Believable(rom, e, base)
     THEN anchored(base, 80)
     ELSE [NotFound(e) EXCEPT !.score =
             IF Inside(e.at, 1) /\ rom[e.at] = Padding THEN 0 ELSE 30]

\* relocate: where each entry is, how it was found and how well.
Relocate(rom) ==
  LET place(e, maps) ==
        IF e.type = "value" THEN RelocateValue(rom, e, maps)
        ELSE IF \E f \in maps : f.name = e.name
        THEN LET f == CHOOSE f \in maps : f.name = e.name
             IN [address |-> f.cand.address, source |-> "fingerprint", score |-> f.cand.score]
        ELSE NotFound(e)
  IN Given(MapMatches(rom),
           LAMBDA maps : [name \in {e.name : e \in Range(Recipe)} |-> place(Entry(name), maps)])

\* The gate of whatever writes: the entry was found.
Relocated(place) == place.source # "default" /\ place.score # 0

-----------------------------------------------------------------------------
(* Properties. *)

\* No two maps or curves are found at one address, also those with the same axes
\* (OpenDamosRelocate.cpp:625-657).
OneMapEach(rom) ==
  \A r \in {Relocate(rom)}, e, f \in Maps :
    e # f /\ r[e.name].source = "fingerprint" /\ r[f.name].source = "fingerprint"
      => r[e.name].address # r[f.name].address

\* A ROM with every map of the recipe at its default address is left as it is, twins included,
\* whatever else in it looks like their axes, and so are the values anchored on them.
StockStays(rom) ==
  LET home(e) == \E c \in FindMapByFingerprint(rom, e) :
                   c.address = e.at /\ c.score = IF e.com /\ e.type = "curve" THEN 90 ELSE 100
  IN (\A e \in Maps : home(e)) => \A r \in {Relocate(rom)} :
       /\ \A e \in Maps : r[e.name].address = e.at /\ r[e.name].source = "fingerprint"
       /\ \A e \in Range(Recipe) \ Maps :
            ~e.search /\ r[e.name].source = "anchor" => r[e.name].address = e.at

\* A value that was found without a search is as far from its anchor as on the reference ROM.
ValuesFollow(rom) ==
  \A r \in {Relocate(rom)}, e \in Range(Recipe) \ Maps :
    ~e.search /\ r[e.name].source = "anchor" =>
      r[e.name].address - e.at = r[e.anchor].address - Entry(e.anchor).at
=============================================================================
